---- MODULE Spec2Model ----
(***************************************************************************)
(* Content segmentation of the micro-learning content service.             *)
(*                                                                         *)
(* Two implementations of "segment" live in the repository:                *)
(*   - content-service/app.py: transform_content_internal (sentence path   *)
(*     and the no-tokenizer fallback path), reached through POST           *)
(*     /transform and POST /upload;                                        *)
(*   - content-service/src/services/transformation_service.py:             *)
(*     TransformationService.split_into_micro_lessons (paragraph path),    *)
(*     reached through the /transform/ router.                             *)
(*                                                                         *)
(* Text representation.  A Python str is a sequence of items, each a run:  *)
(*   [k |-> "w",  n, wl, dot]  n words of wl characters each, separated by *)
(*                             single spaces, the last one followed by a   *)
(*                             sentence-ending "." when dot is TRUE;       *)
(*   [k |-> "sp", n]           a run of n spaces;                          *)
(*   [k |-> "nl", n]           a run of n newlines;                        *)
(*   [k |-> "tab", n]          a run of n tabs.                            *)
(* Canon gives every string its unique representation, so that string      *)
(* equality is equality of representations.                                *)
(***************************************************************************)
EXTENDS Integers, Sequences, FiniteSets, TLC

VARIABLES
    pc,             \* "idle" before the request, "done" after it
    entry,          \* the entry point that served the request
    content,        \* the text submitted with the request
    target,         \* target_duration of the request
    nltk,           \* TRUE iff "from nltk.tokenize import sent_tokenize" succeeds
    status,         \* "none" | "ok" | "400" | "500"
    lessons,        \* the micro_lessons of the response
    total_words,    \* total_words of the response
    extraction,     \* kind of the string extract_text_from_file returned
    courses,        \* the stored courses, each with its lesson_count
    uploads,        \* the number of stored upload records
    stored_lessons, \* the stored lessons
    call_pc,        \* "idle" before a call of the service, "done" after it
    call_args,      \* the arguments of the call
    call_result,    \* what the call returned
    stopwords,      \* self.stopwords of the shared TransformationService
    wpm,            \* self.words_per_minute of the shared TransformationService
    threads,        \* the invocation each thread runs on the shared instance
    locals,         \* the local variables of the running invocations
    mongo_up,       \* TRUE iff the MongoDB server answers
    db,             \* the global db of app.py
    client,         \* the global client of app.py
    memory_storage, \* the global memory_storage of app.py: None or a dict
    dicts,          \* the dicts created for memory_storage so far
    mongo,          \* the collections of the MongoDB database
    connect,        \* the thread that runs connect_to_mongodb
    workers         \* the threads that serve requests meanwhile

requestVars == <<pc, entry, content, target, nltk, status, lessons, total_words>>
uploadVars == <<extraction, courses, uploads, stored_lessons>>
storageVars == <<mongo_up, db, client, memory_storage, dicts, mongo, connect, workers>>
storeVars == <<uploadVars, storageVars>>
callVars == <<call_pc, call_args, call_result>>
serviceVars == <<stopwords, wpm, threads, locals>>

vars == <<requestVars, storeVars, callVars, serviceVars>>

(***************************************************************************)
(* Text representation                                                     *)
(***************************************************************************)
W(n, wl, dot) == [k |-> "w", n |-> n, wl |-> wl, dot |-> dot]
Sp(r) == [k |-> "sp", n |-> r, wl |-> 0, dot |-> FALSE]
Nl(r) == [k |-> "nl", n |-> r, wl |-> 0, dot |-> FALSE]
Tab(r) == [k |-> "tab", n |-> r, wl |-> 0, dot |-> FALSE]

IsWs(i) == i.k # "w"
DotLen(i) == IF i.dot THEN 1 ELSE 0
ItemLen(i) == IF i.k = "w" THEN i.n * i.wl + (i.n - 1) + DotLen(i) ELSE i.n

Last(s) == s[Len(s)]
Front(s) == SubSeq(s, 1, Len(s) - 1)

\* Two word runs written next to each other: the last word of a and the
\* first word of b become one word (no whitespace between them).
Fuse(a, b) ==
    (IF a.n > 1 THEN <<W(a.n - 1, a.wl, FALSE), Sp(1)>> ELSE <<>>)
    \o <<W(1, a.wl + DotLen(a) + b.wl, IF b.n = 1 THEN b.dot ELSE FALSE)>>
    \o (IF b.n > 1 THEN <<Sp(1), W(b.n - 1, b.wl, b.dot)>> ELSE <<>>)

\* acc + i, kept canonical.
Push(acc, i) ==
    IF acc = <<>> THEN <<i>>
    ELSE LET l == Last(acc) IN
         IF IsWs(i)
         THEN IF l.k = i.k
              THEN Front(acc) \o <<[l EXCEPT !.n = l.n + i.n]>>
              ELSE Append(acc, i)
         ELSE IF l.k = "w"
              THEN Front(acc) \o Fuse(l, i)
              ELSE IF /\ l = Sp(1) /\ Len(acc) >= 2
                      /\ acc[Len(acc) - 1].k = "w"
                      /\ ~acc[Len(acc) - 1].dot
                      /\ acc[Len(acc) - 1].wl = i.wl
                   THEN SubSeq(acc, 1, Len(acc) - 2)
                        \o <<W(acc[Len(acc) - 1].n + i.n, i.wl, i.dot)>>
                   ELSE Append(acc, i)

RECURSIVE CanonFrom(_, _)
CanonFrom(acc, s) ==
    IF s = <<>> THEN acc ELSE CanonFrom(Push(acc, Head(s)), Tail(s))

Canon(s) == CanonFrom(<<>>, s)

\* s1 + s2
Concat(s1, s2) == CanonFrom(s1, s2)

RECURSIVE SumSeq(_)
SumSeq(s) == IF s = <<>> THEN 0 ELSE Head(s) + SumSeq(Tail(s))

\* len(s)
TextLen(s) == SumSeq([i \in 1..Len(s) |-> ItemLen(s[i])])

RECURSIVE LStrip(_)
LStrip(s) == IF s # <<>> /\ IsWs(Head(s)) THEN LStrip(Tail(s)) ELSE s

RECURSIVE RStrip(_)
RStrip(s) == IF s # <<>> /\ IsWs(Last(s)) THEN RStrip(Front(s)) ELSE s

\* s.strip()
Strip(s) == RStrip(LStrip(s))

\* len(s.split()): the number of whitespace-separated words
WordCount(s) ==
    SumSeq([i \in 1..Len(s) |-> IF s[i].k = "w" THEN s[i].n ELSE 0])

\* len(word_tokenize(s)): the words, and each sentence-ending "." as a
\* token of its own
TokenCount(s) ==
    SumSeq([i \in 1..Len(s) |-> IF s[i].k = "w" THEN s[i].n + DotLen(s[i]) ELSE 0])

\* sep.join(parts)
RECURSIVE Join(_, _)
Join(parts, sep) ==
    IF parts = <<>> THEN <<>>
    ELSE IF Len(parts) = 1 THEN Head(parts)
    ELSE Concat(Concat(Head(parts), <<sep>>), Join(Tail(parts), sep))

(***************************************************************************)
(* Normalizers                                                             *)
(***************************************************************************)
\* re.sub(r'\s+', ' ', s)
RECURSIVE SubWhitespaceRuns(_, _)
SubWhitespaceRuns(acc, s) ==
    IF s = <<>> THEN acc
    ELSE LET i == Head(s) IN
         IF IsWs(i)
         THEN IF acc # <<>> /\ IsWs(Last(acc))
              THEN SubWhitespaceRuns(acc, Tail(s))
              ELSE SubWhitespaceRuns(Append(acc, Sp(1)), Tail(s))
         ELSE SubWhitespaceRuns(Append(acc, i), Tail(s))

\* re.sub(r'\n{3,}', '\n\n', s)
SubNewlines3(s) ==
    [i \in 1..Len(s) |-> IF s[i].k = "nl" /\ s[i].n >= 3 THEN Nl(2) ELSE s[i]]

\* TransformationService._clean_content
CleanContent(s) == Strip(Canon(SubNewlines3(SubWhitespaceRuns(<<>>, s))))

\* re.sub(r'\n+', '\n', s)
SubNewlineRuns(s) ==
    [i \in 1..Len(s) |-> IF s[i].k = "nl" THEN Nl(1) ELSE s[i]]

\* re.sub(r' +', ' ', s)
SubSpaceRuns(s) ==
    [i \in 1..Len(s) |-> IF s[i].k = "sp" THEN Sp(1) ELSE s[i]]

IsControl(i) == i.k \in {"nl", "tab"}
NotControl(i) == ~IsControl(i)

\* re.sub(r'[\x00-\x1F\x7F-\x9F]', '', s): "\n" and "\t" are control characters
RemoveControl(s) == Canon(SelectSeq(s, NotControl))

\* clean_text_for_processing
CleanTextForProcessing(s) ==
    Strip(RemoveControl(SubSpaceRuns(SubNewlineRuns(s))))

(***************************************************************************)
(* Tokenizers (nltk.tokenize)                                              *)
(***************************************************************************)
\* sent_tokenize(s): a sentence ends at a "." that is followed by whitespace
\* or by the end of the text; the whitespace between two sentences belongs
\* to neither.  st = [done |-> sentences so far, cur |-> the open sentence].
RECURSIVE SentTokenizeFrom(_, _)
SentTokenizeFrom(st, s) ==
    IF s = <<>>
    THEN IF st.cur = <<>> THEN st.done ELSE Append(st.done, RStrip(st.cur))
    ELSE LET i == Head(s) IN
         IF i.k = "w"
         THEN IF i.dot
              THEN SentTokenizeFrom([done |-> Append(st.done, Append(st.cur, i)),
                                     cur |-> <<>>], Tail(s))
              ELSE SentTokenizeFrom([st EXCEPT !.cur = Append(st.cur, i)], Tail(s))
         ELSE IF st.cur = <<>>
              THEN SentTokenizeFrom(st, Tail(s))
              ELSE SentTokenizeFrom([st EXCEPT !.cur = Append(st.cur, i)], Tail(s))

SentTokenize(s) == SentTokenizeFrom([done |-> <<>>, cur |-> <<>>], s)

(***************************************************************************)
(* TransformationService (paragraph path)                                  *)
(***************************************************************************)
words_per_minute == 200
MinParagraphWords == 50

\* s.split('\n\n'), each part stripped, the empty parts left out
RECURSIVE RawParagraphsFrom(_, _)
RawParagraphsFrom(st, s) ==
    IF s = <<>>
    THEN IF Strip(st.cur) = <<>> THEN st.done ELSE Append(st.done, Strip(st.cur))
    ELSE LET i == Head(s) IN
         IF i.k = "nl" /\ i.n >= 2
         THEN RawParagraphsFrom(
                  [done |-> IF Strip(st.cur) = <<>> THEN st.done
                            ELSE Append(st.done, Strip(st.cur)),
                   cur |-> <<>>], Tail(s))
         ELSE RawParagraphsFrom([st EXCEPT !.cur = Append(st.cur, i)], Tail(s))

RawParagraphs(s) == RawParagraphsFrom([done |-> <<>>, cur |-> <<>>], s)

\* The merge loop of _split_into_paragraphs;
\* st = [paragraphs |-> ..., current_para |-> ...].
RECURSIVE MergeShortFrom(_, _)
MergeShortFrom(st, raw) ==
    IF raw = <<>> THEN st
    ELSE LET para == Head(raw) IN
         IF TokenCount(para) < MinParagraphWords
         THEN MergeShortFrom(
                  [st EXCEPT !.current_para =
                      IF st.current_para # <<>>
                      THEN Concat(Concat(st.current_para, <<Sp(1)>>), para)
                      ELSE para],
                  Tail(raw))
         ELSE MergeShortFrom(
                  [paragraphs |->
                      (IF st.current_para # <<>>
                       THEN Append(st.paragraphs, st.current_para)
                       ELSE st.paragraphs) \o <<para>>,
                   current_para |-> <<>>],
                  Tail(raw))

\* Faulty variant: the short paragraphs still pending after the loop are dropped
DropCurrentPara(st) == st.paragraphs

\* The "if current_para: paragraphs.append(current_para)" after the loop
FlushCurrentPara(st) ==
    IF st.current_para # <<>>
    THEN Append(st.paragraphs, st.current_para)
    ELSE st.paragraphs

\* TransformationService._split_into_paragraphs
SplitIntoParagraphs(s) ==
    FlushCurrentPara(
        MergeShortFrom([paragraphs |-> <<>>, current_para |-> <<>>],
                       RawParagraphs(s)))

\* i[:c] for an item i longer than c > 0 characters
TakeItemChars(i, c) ==
    IF i.k # "w" THEN <<[i EXCEPT !.n = c]>>
    ELSE LET whole == c \div (i.wl + 1)
             part == c % (i.wl + 1)
         IN  (IF whole > 0 THEN <<W(whole, i.wl, FALSE), Sp(1)>> ELSE <<>>)
             \o (IF part > 0 THEN <<W(1, part, FALSE)>> ELSE <<>>)

\* s[:c]
RECURSIVE TakeChars(_, _)
TakeChars(s, c) ==
    IF s = <<>> \/ c <= 0 THEN <<>>
    ELSE IF ItemLen(Head(s)) <= c
         THEN Concat(<<Head(s)>>, TakeChars(Tail(s), c - ItemLen(Head(s))))
         ELSE Canon(TakeItemChars(Head(s), c))

TitleMaxChars == 80
TitleCutChars == 77

\* A title: a text, followed by "..." when ellipsis is TRUE
Title(text, ellipsis) == [text |-> text, ellipsis |-> ellipsis]

\* len(title)
TitleLen(t) == TextLen(t.text) + (IF t.ellipsis THEN 3 ELSE 0)

\* "Micro-Leçon"
DefaultTitle == Title(<<W(1, 11, FALSE)>>, FALSE)

\* 'sentence[:77] + "..."' for a sentence of more than 80 characters, else
\* the sentence
CutTitle(sentence) ==
    IF TextLen(sentence) > TitleMaxChars
    THEN Title(TakeChars(sentence, TitleCutChars), TRUE)
    ELSE Title(sentence, FALSE)

\* 'sentences[0][:80] + "..." if len(sentences[0]) > 80 else sentences[0]'
FirstSentenceTitle(sentence) ==
    IF TextLen(sentence) > TitleMaxChars
    THEN Title(TakeChars(sentence, TitleMaxChars), TRUE)
    ELSE Title(sentence, FALSE)

\* TransformationService._generate_title
GenerateTitle(sentences) ==
    LET long == SelectSeq(sentences, LAMBDA x : TokenCount(x) > 5) IN
    IF sentences = <<>> THEN DefaultTitle
    ELSE IF long # <<>> THEN CutTitle(long[1])
    ELSE FirstSentenceTitle(sentences[1])

Max(a, b) == IF a >= b THEN a ELSE b
Min(a, b) == IF a <= b THEN a ELSE b

\* Python's round(a / b) for b > 0 and any integer a: to the nearest integer,
\* a tie to the even one.  \div and % floor, as Python's // and % do.
PyRound(a, b) ==
    LET q == a \div b
        r == a % b
    IN  IF 2 * r < b THEN q
        ELSE IF 2 * r > b THEN q + 1
        ELSE IF q % 2 = 0 THEN q ELSE q + 1

\* max(1, round(word_count / self.words_per_minute))
ServiceEstimatedMinutes(word_count) ==
    Max(1, PyRound(word_count, words_per_minute))

\* len(micro_lessons) + 1
LessonNumber(micro_lessons) == Len(micro_lessons) + 1

\* Faulty variant: the content built from the first sentence (the title's source)
\* instead of the paragraphs
CreateLessonFromFirstSentence(lesson_data, order) ==
    [content |-> LET ss == SentTokenize(Join(lesson_data.paragraphs, Nl(2)))
                 IN  IF ss = <<>> THEN <<>> ELSE ss[1],
     estimated_minutes |-> ServiceEstimatedMinutes(lesson_data.word_count),
     word_count |-> lesson_data.word_count,
     order |-> order,
     is_summary |-> FALSE]

\* TransformationService._create_lesson_from_data
CreateLessonFromData(lesson_data, order) ==
    [content |-> Join(lesson_data.paragraphs, Nl(2)),
     estimated_minutes |-> ServiceEstimatedMinutes(lesson_data.word_count),
     word_count |-> lesson_data.word_count,
     order |-> order,
     is_summary |-> FALSE]

EmptyLessonData == [paragraphs |-> <<>>, word_count |-> 0]

\* The test that closes the current lesson before a paragraph is added
ServiceCloses(current_lesson, para_words, target_words) ==
    /\ current_lesson.word_count + para_words > target_words
    /\ current_lesson.paragraphs # <<>>

\* The grouping loop of split_into_micro_lessons;
\* st = [micro_lessons |-> ..., current_lesson |-> ...].
RECURSIVE GroupParagraphs(_, _, _)
GroupParagraphs(st, paragraphs, target_words) ==
    IF paragraphs = <<>> THEN st
    ELSE LET paragraph == Head(paragraphs)
             para_words == TokenCount(paragraph)
             closed == IF ServiceCloses(st.current_lesson, para_words, target_words)
                       THEN [micro_lessons |->
                                Append(st.micro_lessons,
                                       CreateLessonFromData(st.current_lesson,
                                           LessonNumber(st.micro_lessons))),
                             current_lesson |-> EmptyLessonData]
                       ELSE st
         IN  GroupParagraphs(
                 [closed EXCEPT !.current_lesson =
                     [paragraphs |-> Append(closed.current_lesson.paragraphs, paragraph),
                      word_count |-> closed.current_lesson.word_count + para_words]],
                 Tail(paragraphs), target_words)

\* Faulty variant: the last lesson is emitted only when it holds several paragraphs
ServiceFlushSeveral(st) ==
    IF Len(st.current_lesson.paragraphs) > 1
    THEN Append(st.micro_lessons,
                CreateLessonFromData(st.current_lesson, LessonNumber(st.micro_lessons)))
    ELSE st.micro_lessons

\* The "if current_lesson['paragraphs']" after the loop
ServiceFlush(st) ==
    IF st.current_lesson.paragraphs # <<>>
    THEN Append(st.micro_lessons,
                CreateLessonFromData(st.current_lesson, LessonNumber(st.micro_lessons)))
    ELSE st.micro_lessons

\* TransformationService.split_into_micro_lessons
SplitIntoMicroLessons(s, duration_minutes) ==
    ServiceFlush(
        GroupParagraphs([micro_lessons |-> <<>>, current_lesson |-> EmptyLessonData],
                        SplitIntoParagraphs(CleanContent(s)),
                        duration_minutes * words_per_minute))

(***************************************************************************)
(* app.py: transform_content_internal                                      *)
(***************************************************************************)
AppWordsPerMinute == 200
MinDirectChars == 10
MinUploadChars == 50
SummaryMaxWords == 500

\* "estimated_minutes" of a lesson closed inside the loop
AppEstimatedMinutesClosed(word_count, target_duration) ==
    Max(1, Min(target_duration, PyRound(word_count, AppWordsPerMinute)))

\* Faulty variant: the lower bound of one minute forgotten
AppEstimatedMinutesNoFloor(word_count) == PyRound(word_count, AppWordsPerMinute)

\* "estimated_minutes" of the last lesson
AppEstimatedMinutesLast(word_count) ==
    Max(1, PyRound(word_count, AppWordsPerMinute))

\* Faulty variant: the lesson number taken before the lesson is counted
AppLessonNumZeroBased(micro_lessons) == Len(micro_lessons)

\* lesson_num = len(micro_lessons) + 1
AppLessonNum(micro_lessons) == Len(micro_lessons) + 1

\* Faulty variant: the sentence about to be added is left out of the test
AppClosesLate(word_count, sentence_words, target_words, current_lesson) ==
    /\ word_count > target_words
    /\ current_lesson # <<>>

\* Faulty variant: the current lesson is closed even when it holds nothing
AppClosesEvenIfEmpty(word_count, sentence_words, target_words, current_lesson) ==
    word_count + sentence_words > target_words

\* The test that closes the current lesson before a sentence is added
AppCloses(word_count, sentence_words, target_words, current_lesson) ==
    /\ word_count + sentence_words > target_words
    /\ current_lesson # <<>>

\* The sentence loop; st = [micro_lessons, current_lesson, word_count].
RECURSIVE SentenceLoop(_, _, _)
SentenceLoop(st, sentences, target_duration) ==
    IF sentences = <<>> THEN st
    ELSE LET sentence == Head(sentences)
             sentence_words == WordCount(sentence)
             target_words == target_duration * AppWordsPerMinute
             closed ==
                 IF AppCloses(st.word_count, sentence_words, target_words,
                              st.current_lesson)
                 THEN [micro_lessons |->
                          Append(st.micro_lessons,
                              [content |-> Strip(st.current_lesson),
                               estimated_minutes |->
                                   AppEstimatedMinutesClosed(st.word_count,
                                                             target_duration),
                               word_count |-> st.word_count,
                               order |-> AppLessonNum(st.micro_lessons),
                               is_summary |-> FALSE]),
                       current_lesson |-> <<>>,
                       word_count |-> 0]
                 ELSE st
         IN  SentenceLoop(
                 [closed EXCEPT
                     !.current_lesson =
                         Concat(Concat(closed.current_lesson, sentence), <<Sp(1)>>),
                     !.word_count = closed.word_count + sentence_words],
                 Tail(sentences), target_duration)

\* The "if current_lesson" after the loop
AppFlush(st) ==
    IF st.current_lesson # <<>>
    THEN Append(st.micro_lessons,
             [content |-> Strip(st.current_lesson),
              estimated_minutes |-> AppEstimatedMinutesLast(st.word_count),
              word_count |-> st.word_count,
              order |-> AppLessonNum(st.micro_lessons),
              is_summary |-> FALSE])
    ELSE st.micro_lessons

\* "if len(micro_lessons) == 1 and len(content.split()) < 500"
MarkSummary(micro_lessons, text) ==
    IF Len(micro_lessons) = 1 /\ WordCount(text) < SummaryMaxWords
    THEN <<[micro_lessons[1] EXCEPT !.is_summary = TRUE]>>
    ELSE micro_lessons

\* sum(l["word_count"] for l in micro_lessons)
SumWordCount(micro_lessons) ==
    SumSeq([i \in 1..Len(micro_lessons) |-> micro_lessons[i].word_count])

\* The sentence path of transform_content_internal, on the cleaned text
SentencePath(text, target_duration) ==
    MarkSummary(
        AppFlush(SentenceLoop(
            [micro_lessons |-> <<>>, current_lesson |-> <<>>, word_count |-> 0],
            SentTokenize(text), target_duration)),
        text)

\* content.split(): the words, as word runs
SplitWords(s) == SelectSeq(s, LAMBDA i : i.k = "w")

\* words[:k] and words[k:] of a list of word runs holding more than k words
RECURSIVE TakeWords(_, _)
TakeWords(runs, k) ==
    IF k = 0 \/ runs = <<>> THEN [taken |-> <<>>, rest |-> runs]
    ELSE LET r == Head(runs) IN
         IF r.n <= k
         THEN LET t == TakeWords(Tail(runs), k - r.n)
              IN  [taken |-> <<r>> \o t.taken, rest |-> t.rest]
         ELSE [taken |-> <<W(k, r.wl, FALSE)>>,
               rest |-> <<W(r.n - k, r.wl, r.dot)>> \o Tail(runs)]

\* " ".join(chunk)
JoinWords(runs) == Join([i \in 1..Len(runs) |-> <<runs[i]>>], Sp(1))

\* The chunk loop of the fallback path, for chunk_size > 0
RECURSIVE FallbackLoop(_, _, _, _)
FallbackLoop(micro_lessons, runs, chunk_size, target_duration) ==
    IF runs = <<>> THEN micro_lessons
    ELSE LET t == TakeWords(runs, chunk_size)
         IN  FallbackLoop(
                 Append(micro_lessons,
                     [content |-> JoinWords(t.taken),
                      estimated_minutes |-> target_duration,
                      word_count |-> WordCount(t.taken),
                      order |-> Len(micro_lessons) + 1,
                      is_summary |-> FALSE]),
                 t.rest, chunk_size, target_duration)

Rejected(code) == [status |-> code, lessons |-> <<>>, total_words |-> -1]

\* The fallback path (ImportError): range(0, len(words), 0) raises ValueError,
\* which the outer handler turns into a 500; a negative step gives no chunk.
FallbackPath(text, target_duration) ==
    LET chunk_size == target_duration * AppWordsPerMinute IN
    IF chunk_size = 0 THEN Rejected("500")
    ELSE LET ls == IF chunk_size < 0 THEN <<>>
                   ELSE FallbackLoop(<<>>, SplitWords(text), chunk_size,
                                     target_duration)
         IN  [status |-> "ok", lessons |-> ls, total_words |-> SumWordCount(ls)]

\* "if not content or len(content.strip()) < 10"
TooShortDirect(text) == text = <<>> \/ TextLen(Strip(text)) < MinDirectChars

\* transform_content_internal
TransformContentInternal(raw, target_duration, nltk_ok) ==
    LET text == CleanTextForProcessing(raw) IN
    IF TooShortDirect(text) THEN Rejected("500")
    ELSE IF nltk_ok
         THEN LET ls == SentencePath(text, target_duration)
              IN  [status |-> "ok", lessons |-> ls, total_words |-> SumWordCount(ls)]
         ELSE FallbackPath(text, target_duration)

\* "if not text_content or len(text_content.strip()) < 50" of POST /upload
TooShortUpload(raw) == raw = <<>> \/ TextLen(Strip(raw)) < MinUploadChars

\* A text of single-spaced words with the given lengths; dots[i] tells
\* whether word i ends a sentence
WordsOfLengths(lens, dots) ==
    Canon([i \in 1..(2 * Len(lens) - 1) |->
              IF i % 2 = 1 THEN W(1, lens[(i + 1) \div 2], dots[(i + 1) \div 2])
              ELSE Sp(1)])

\* "Bibliothèque pypdf requise pour extraire le texte des PDFs. Installez
\* avec: pip install pypdf" (93 characters)
PypdfRequiredMessage ==
    WordsOfLengths(<<12, 5, 7, 4, 8, 2, 5, 3, 4, 9, 5, 3, 7, 5>>,
                   [i \in 1..14 |-> i = 9])

\* "Aucun texte extrait du PDF. Le PDF peut être numérisé ou protégé."
NoTextMessage ==
    WordsOfLengths(<<5, 5, 7, 2, 3, 2, 3, 4, 4, 8, 2, 7>>,
                   [i \in 1..12 |-> i \in {5, 12}])

\* "Erreur lecture PDF: ...", "Erreur extraction PDF: ...", "Erreur
\* extraction texte: ...": the words before the exception's own text
ErrorMessage == WordsOfLengths(<<6, 10, 4>>, [i \in 1..3 |-> FALSE])

\* What can happen while the file is read: "ok"; "import_error" (pypdf is
\* not importable); "read_error" (PdfReader or open raises); "no_text" (no
\* page gives text)
PdfOutcomes == {"ok", "import_error", "read_error", "no_text"}

\* extract_text_from_file: the returned string, and its kind, which stands
\* for how the string starts. page_text is the text of the file (of the one
\* page of a PDF).
ExtractTextFromFile(file_type, page_text, outcome) ==
    IF file_type = "text/plain"
    THEN IF outcome = "ok" THEN [kind |-> "text", text |-> page_text]
         ELSE [kind |-> "erreur", text |-> ErrorMessage]
    ELSE IF outcome = "import_error"
         THEN [kind |-> "pypdf_requise", text |-> PypdfRequiredMessage]
    ELSE IF outcome = "read_error"
         THEN [kind |-> "erreur", text |-> ErrorMessage]
    ELSE IF outcome = "no_text" \/ Strip(page_text) = <<>>
         THEN [kind |-> "aucun_texte", text |-> NoTextMessage]
    ELSE [kind |-> "text",
          text |-> Canon(Strip(Canon(SubWhitespaceRuns(<<>>, page_text)))
                        \o <<Nl(2)>>)]

\* 'text_content.startswith("Erreur") or text_content.startswith("Aucun
\* texte")'; no submitted text built here starts with these words
ExtractionFailed(x) == x.kind \in {"erreur", "aucun_texte"}

\* The response of upload_and_transform_course to a file from which
\* extract_text_from_file returned x. A 400 is raised before the course is
\* stored, a 500 by transform_content_internal after it.
UploadAndTransform(x, target_duration, nltk_ok) ==
    IF ExtractionFailed(x) THEN Rejected("400")
    ELSE IF TooShortUpload(x.text) THEN Rejected("400")
    ELSE TransformContentInternal(x.text, target_duration, nltk_ok)

\* The courses after the upload answered r: the course is stored with
\* lesson_count 0 before the transformation and counts each stored lesson
CoursesAfterUpload(cs, r) ==
    IF r.status = "400" THEN cs
    ELSE Append(cs, [lesson_count |-> Len(r.lessons)])

\* The upload records after the upload answered r
UploadsAfterUpload(n, r) == IF r.status = "400" THEN n ELSE n + 1

\* The stored lessons after the upload answered r
LessonsAfterUpload(ls, r) == ls \o r.lessons

(***************************************************************************)
(* src/routers/transform.py                                                *)
(***************************************************************************)
MinRouterChars == 50

\* "if not content or len(content.strip()) < 50"
TooShortRouter(raw) == raw = <<>> \/ TextLen(Strip(raw)) < MinRouterChars

\* transform_content of the /transform/ router; its response has no total_words
RouterTransformContent(raw, target_duration) ==
    IF TooShortRouter(raw) THEN Rejected("400")
    ELSE [status |-> "ok",
          lessons |-> SplitIntoMicroLessons(raw, target_duration),
          total_words |-> -1]

(***************************************************************************)
(* extract_keywords and generate_quiz_questions of                         *)
(* src/services/transformation_service.py.  A text is the sequence of the  *)
(* tokens word_tokenize gives for it.                                      *)
(***************************************************************************)
Tokens == {"Algorithm", "algorithm", "database", "index", "data", "These",
           "with", "avec", "the", "cat", "2024", "."}

\* str.lower
Lower(w) ==
    CASE w = "Algorithm" -> "algorithm"
      [] w = "These" -> "these"
      [] OTHER -> w

\* str.isalpha
IsAlpha(w) == w \notin {"2024", "."}

\* len(w)
Chars(w) ==
    CASE w \in {"Algorithm", "algorithm"} -> 9
      [] w = "database" -> 8
      [] w \in {"index", "These", "these"} -> 5
      [] w \in {"data", "with", "avec", "2024"} -> 4
      [] w \in {"the", "cat"} -> 3
      [] OTHER -> 1

\* set(stopwords.words(['english', 'french'])): the words of the two NLTK
\* lists among the lower-case tokens
NltkStopwords == {"these", "with", "the", "avec"}

\* A text written as runs: cnt occurrences of tok each
RECURSIVE Expand(_)
Expand(runs) ==
    IF runs = <<>> THEN <<>>
    ELSE [i \in 1..Head(runs).cnt |-> Head(runs).tok] \o Expand(Tail(runs))

\* Counter(words): the distinct words in order of first occurrence, each
\* with its number of occurrences
CounterAdd(counter, w) ==
    IF \E i \in 1..Len(counter) : counter[i].word = w
    THEN [i \in 1..Len(counter) |->
             IF counter[i].word = w
             THEN [counter[i] EXCEPT !.count = @ + 1]
             ELSE counter[i]]
    ELSE Append(counter, [word |-> w, count |-> 1])

RECURSIVE CounterFrom(_, _)
CounterFrom(counter, words) ==
    IF words = <<>> THEN counter
    ELSE CounterFrom(CounterAdd(counter, Head(words)), Tail(words))

Counter(words) == CounterFrom(<<>>, words)

\* Faulty variant: among equal counts the later word comes first
InsertBeforeEqualCount(sorted, item) ==
    LET before == SelectSeq(sorted, LAMBDA e : e.count > item.count)
        after == SelectSeq(sorted, LAMBDA e : e.count <= item.count)
    IN  before \o <<item>> \o after

\* One step of the stable sort by descending count: item goes after every
\* entry whose count is at least its own
InsertByCount(sorted, item) ==
    LET before == SelectSeq(sorted, LAMBDA e : e.count >= item.count)
        after == SelectSeq(sorted, LAMBDA e : e.count < item.count)
    IN  before \o <<item>> \o after

RECURSIVE SortByCount(_, _)
SortByCount(sorted, counter) ==
    IF counter = <<>> THEN sorted
    ELSE SortByCount(InsertByCount(sorted, Head(counter)), Tail(counter))

\* Counter.most_common(n) for an integer n: heapq.nlargest(n, items, key =
\* count), which is sorted(items, key = count, reverse = True)[:n] and gives
\* nothing for n <= 0
MostCommon(counter, n) ==
    LET sorted == SortByCount(<<>>, counter) IN
    IF n <= 0 THEN <<>>
    ELSE [i \in 1..Min(n, Len(sorted)) |-> sorted[i].word]

\* Faulty variant: words of 3 characters are kept
LongEnoughFrom3(w) == Chars(w) >= 3

\* "len(w) > 3"
LongEnough(w) == Chars(w) > 3

\* "words = [w for w in words if w.isalpha() and len(w) > 3]"
AlphaLongWords(words) == SelectSeq(words, LAMBDA w : IsAlpha(w) /\ LongEnough(w))

\* "words = [w for w in words if w not in self.stopwords]"
NonStopwords(words, sw) == SelectSeq(words, LAMBDA w : w \notin sw)

\* "words = word_tokenize(content.lower())"
LowerTokens(tokens) == [i \in 1..Len(tokens) |-> Lower(tokens[i])]

\* extract_keywords(content, top_n) of a service whose self.stopwords is sw
ExtractKeywords(tokens, top_n, sw) ==
    MostCommon(Counter(NonStopwords(AlphaLongWords(LowerTokens(tokens)), sw)),
               top_n)

\* The four options of every question (written without their accents)
QuestionOptions ==
    <<"Un element technique essentiel", "Une notion secondaire",
      "Un principe fondamental", "Un detail sans importance">>

\* "w.isalpha() and len(w) > 4 and w.lower() not in self.stopwords"
IsQuestionKeyword(w, sw) == IsAlpha(w) /\ Chars(w) > 4 /\ Lower(w) \notin sw

\* Faulty variant: the correct answer is the main keyword
QuestionAnsweredByKeyword(sentence, number, sw) ==
    LET keywords == SelectSeq(sentence, LAMBDA w : IsQuestionKeyword(w, sw)) IN
    IF keywords = <<>> THEN <<>>
    ELSE <<[number |-> number,
            main_keyword |-> keywords[1],
            options |-> QuestionOptions,
            correct_answer |-> keywords[1],
            points |-> 1,
            source |-> sentence]>>

\* _generate_question_from_sentence: no question (None) or one question.
\* number and main_keyword stand for the text and the explanation, which are
\* formatted from them; source is the sentence the question was built from.
GenerateQuestionFromSentence(sentence, number, sw) ==
    LET keywords == SelectSeq(sentence, LAMBDA w : IsQuestionKeyword(w, sw)) IN
    IF keywords = <<>> THEN <<>>
    ELSE <<[number |-> number,
            main_keyword |-> keywords[1],
            options |-> QuestionOptions,
            correct_answer |-> "Un element technique essentiel",
            points |-> 1,
            source |-> sentence]>>

\* Faulty variant: a sentence of 6 tokens is used too
QualifiesFrom6(s, used_sentences) == s \notin used_sentences /\ Len(s) >= 6

\* "s not in used_sentences and len(word_tokenize(s)) > 6"
Qualifies(s, used_sentences) == s \notin used_sentences /\ Len(s) > 6

\* The local variables of generate_quiz_questions before its loop
QuizStart == [questions |-> <<>>, used_sentences |-> {}, broke |-> FALSE]

\* Faulty variant: the chosen sentence is not added to used_sentences
QuizIterationForgets(st, sentences, i, sw) ==
    LET found == SelectSeq(sentences, LAMBDA s : Qualifies(s, st.used_sentences)) IN
    IF st.broke THEN st
    ELSE IF found = <<>> THEN [st EXCEPT !.broke = TRUE]
    ELSE [st EXCEPT
             !.questions = @ \o GenerateQuestionFromSentence(found[1], i + 1, sw)]

\* Iteration i of "for i in range(num_questions)": the first sentence that
\* qualifies is marked used and gives a question or none; without such a
\* sentence the loop ends
QuizIteration(st, sentences, i, sw) ==
    LET found == SelectSeq(sentences, LAMBDA s : Qualifies(s, st.used_sentences)) IN
    IF st.broke THEN st
    ELSE IF found = <<>> THEN [st EXCEPT !.broke = TRUE]
    ELSE [st EXCEPT
             !.used_sentences = @ \cup {found[1]},
             !.questions = @ \o GenerateQuestionFromSentence(found[1], i + 1, sw)]

RECURSIVE QuizLoop(_, _, _, _, _)
QuizLoop(st, sentences, i, n, sw) ==
    IF i >= n THEN st
    ELSE QuizLoop(QuizIteration(st, sentences, i, sw), sentences, i + 1, n, sw)

\* Faulty variant: one question is asked for per sentence, whatever
\* num_questions is
QuestionsPerSentence(sentences, num_questions) == Len(sentences)

\* "if len(sentences) < num_questions: num_questions = len(sentences)"
CappedQuestions(sentences, num_questions) ==
    IF Len(sentences) < num_questions THEN Len(sentences) ELSE num_questions

\* generate_quiz_questions(content, num_questions), sentences being
\* sent_tokenize(content), of a service whose self.stopwords is sw
GenerateQuizQuestions(sentences, num_questions, sw) ==
    QuizLoop(QuizStart, sentences, 0,
             CappedQuestions(sentences, num_questions), sw).questions

(***************************************************************************)
(* The global instance "transformation_service = TransformationService()": *)
(* its fields stopwords and wpm, and threads that invoke its methods.  An  *)
(* invocation runs in steps; between two steps the other threads may run.  *)
(***************************************************************************)
NumThreads == 3

Threads == 1..NumThreads

\* overlapped records that a step of the invocation was taken while another
\* thread was inside an invocation
IdleThread ==
    [pc |-> "idle", op |-> "none", args |-> <<>>, result |-> <<>>,
     overlapped |-> FALSE]

\* The local variables of an invocation: words of extract_keywords; quiz, i
\* and n of generate_quiz_questions; seg, rest and target_words of
\* split_into_micro_lessons
NoLocals ==
    [words |-> <<>>, quiz |-> QuizStart, i |-> 0, n |-> 0,
     seg |-> [micro_lessons |-> <<>>, current_lesson |-> EmptyLessonData],
     rest |-> <<>>, target_words |-> 0]

\* TransformationService.__init__ where no thread invokes the instance
\* directly
ServiceUnused ==
    /\ stopwords = NltkStopwords
    /\ wpm = words_per_minute
    /\ threads = <<>>
    /\ locals = <<>>

\* TransformationService.__init__ and the state before any invocation
ServiceIdle ==
    /\ stopwords = NltkStopwords
    /\ wpm = words_per_minute
    /\ threads = [t \in Threads |-> IdleThread]
    /\ locals = [t \in Threads |-> NoLocals]

\* Faulty variant: the local variables are kept in one place for all threads
\* (as fields of the instance)
SharedLocals(t) == 1

\* Where the local variables of thread t's invocation live: in t's own frame
LocalsOf(t) == t

\* Faulty variant: extract_keywords adds the words it kept to self.stopwords
StopwordsLearned(sw, words) == sw \cup {words[i] : i \in 1..Len(words)}

\* self.stopwords after extract_keywords filtered words: the method only
\* reads it
StopwordsKept(sw, words) == sw

(***************************************************************************)
(* Requests                                                                *)
(***************************************************************************)
MaxBlocks == 3

\* Word runs of the submitted texts: "Hi.", 5 words of 24 characters without
\* a final ".", and sentences of 20, 200 and 1000 words.
Blocks == {W(1, 2, TRUE), W(5, 4, FALSE), W(20, 4, TRUE),
           W(200, 4, TRUE), W(1000, 4, TRUE)}

\* What separates two word runs of a submitted text
Seps == {Sp(1), Sp(2), Nl(1), Nl(2), Nl(3)}

Interleave(bs, ss) ==
    Canon([i \in 1..(2 * Len(bs) - 1) |->
              IF i % 2 = 1 THEN bs[(i + 1) \div 2] ELSE ss[i \div 2]])

\* Whitespace around a submitted text
Pad(padded, body) == IF padded THEN <<Tab(1)>> \o body \o <<Sp(2)>> ELSE body

\* content is a submitted text: up to MaxBlocks word runs with separators
\* between them, the shorter ones also with whitespace around them; or an
\* empty or blank text
IsInput(text) ==
    \/ \E k \in 1..MaxBlocks :
           \E bs \in [1..k -> Blocks], ss \in [1..(k - 1) -> Seps],
              padded \in (IF k < MaxBlocks THEN BOOLEAN ELSE {FALSE}) :
               text = Pad(padded, Interleave(bs, ss))
    \/ text \in {<<>>, <<Sp(2)>>}

\* TransformRequest.target_duration is any int; the Form fields of /upload and
\* of the router are declared ge=1, le=30.
AnyDurations == {-1, 0, 1, 5}
FormDurations == {1, 5}

\* The module globals of app.py (lines 29-31) and an empty database, where
\* no thread runs yet
StorageUnused ==
    /\ mongo_up = FALSE
    /\ db = "None"
    /\ client = "None"
    /\ memory_storage = 0
    /\ dicts = <<>>
    /\ mongo = [courses |-> {}, lessons |-> {}, next_oid |-> 1]
    /\ connect = <<>>
    /\ workers = <<>>

\* No file has been uploaded
NothingUploaded ==
    /\ extraction = "none"
    /\ courses = <<>>
    /\ uploads = 0
    /\ stored_lessons = <<>>

\* Nothing is stored yet
StoreEmpty == NothingUploaded /\ StorageUnused

\* No method of the service has been called directly
CallIdle ==
    /\ call_pc = "idle"
    /\ call_args = [op |-> "none"]
    /\ call_result = <<>>

\* No request has been served
RequestIdle ==
    /\ pc = "idle"
    /\ entry = "none"
    /\ target = 0
    /\ nltk = TRUE
    /\ status = "none"
    /\ lessons = <<>>
    /\ total_words = -1

Init ==
    /\ RequestIdle
    /\ IsInput(content)
    /\ StoreEmpty
    /\ CallIdle
    /\ ServiceUnused

Respond(e, td, ok, r) ==
    /\ pc' = "done"
    /\ entry' = e
    /\ target' = td
    /\ nltk' = ok
    /\ status' = r.status
    /\ lessons' = r.lessons
    /\ total_words' = r.total_words
    /\ UNCHANGED content

\* POST /transform of app.py
Transform ==
    /\ pc = "idle"
    /\ \E td \in AnyDurations, ok \in BOOLEAN :
           \E r \in {TransformContentInternal(content, td, ok)} :
               Respond("transform", td, ok, r)
    /\ UNCHANGED <<storeVars, callVars, serviceVars>>

\* POST /upload of app.py with a file of the given type whose text is
\* content, outcome being what happens while the file is read
UploadFile(file_type, outcome) ==
    /\ pc = "idle"
    /\ \E td \in FormDurations, ok \in BOOLEAN :
           \E x \in {ExtractTextFromFile(file_type, content, outcome)} :
               \E r \in {UploadAndTransform(x, td, ok)} :
                   /\ Respond("upload", td, ok, r)
                   /\ extraction' = x.kind
                   /\ courses' = CoursesAfterUpload(courses, r)
                   /\ uploads' = UploadsAfterUpload(uploads, r)
                   /\ stored_lessons' = LessonsAfterUpload(stored_lessons, r)
    /\ UNCHANGED <<storageVars, callVars, serviceVars>>

\* POST /upload of app.py with a text/plain file
Upload == UploadFile("text/plain", "ok")

\* POST /upload of app.py with an application/pdf file
UploadPdf == \E outcome \in PdfOutcomes : UploadFile("application/pdf", outcome)

\* POST /transform/ of the router
RouterTransform ==
    /\ pc = "idle"
    /\ \E td \in FormDurations :
           \E r \in {RouterTransformContent(content, td)} :
               Respond("router", td, TRUE, r)
    /\ UNCHANGED <<storeVars, callVars, serviceVars>>

Next == Transform \/ Upload \/ RouterTransform

Spec == Init /\ [][Next]_vars

(***************************************************************************)
(* Uploads of text and PDF files                                           *)
(***************************************************************************)
\* What separates two word runs of an uploaded file: as in a submitted
\* text, or 60 spaces
FileSeps == Seps \cup {Sp(60)}

\* The text of an uploaded file: one or two word runs, or nothing
IsFileText(text) ==
    \/ \E b \in Blocks : text = <<b>>
    \/ \E b1 \in Blocks, b2 \in Blocks, sep \in FileSeps :
           text = Interleave(<<b1, b2>>, <<sep>>)
    \/ text = <<>>

InitUpload ==
    /\ RequestIdle
    /\ IsFileText(content)
    /\ StoreEmpty
    /\ CallIdle
    /\ ServiceUnused

NextUpload == Upload \/ UploadPdf

SpecUpload == InitUpload /\ [][NextUpload]_vars

(***************************************************************************)
(* Direct calls of extract_keywords                                        *)
(***************************************************************************)
MaxRuns == 3

\* The tokens of the texts given to extract_keywords and how often a token
\* is repeated in a row
KeywordTokens == {"Algorithm", "algorithm", "database", "data", "with", "cat", "2024"}
RunLengths == {1, 3, 5}

\* top_n of the calls; 10 is the default
TopNs == {0, 1, 2, 10}

\* up to MaxRuns runs of tokens, and a top_n
IsKeywordCall(args) ==
    \E k \in 0..MaxRuns :
        \E toks \in [1..k -> KeywordTokens], cnts \in [1..k -> RunLengths],
           n \in TopNs :
            args = [op |-> "extract_keywords",
                    tokens |-> Expand([i \in 1..k |->
                                          [tok |-> toks[i], cnt |-> cnts[i]]]),
                    top_n |-> n]

\* No request is served and nothing is stored
RequestsIdle == RequestIdle /\ content = <<>> /\ StoreEmpty

InitKeywords ==
    /\ RequestsIdle
    /\ ServiceUnused
    /\ call_pc = "idle"
    /\ IsKeywordCall(call_args)
    /\ call_result = <<>>

\* transformation_service.extract_keywords(content, top_n)
CallExtractKeywords ==
    /\ call_pc = "idle"
    /\ call_args.op = "extract_keywords"
    /\ call_pc' = "done"
    /\ call_result' = ExtractKeywords(call_args.tokens, call_args.top_n, stopwords)
    /\ UNCHANGED <<call_args, requestVars, storeVars, serviceVars>>

SpecKeywords == InitKeywords /\ [][CallExtractKeywords]_vars

(***************************************************************************)
(* Direct calls of generate_quiz_questions                                 *)
(***************************************************************************)
MaxSentences == 3

\* Sentences of the documents: 8 tokens with the keyword "algorithm"
AlgorithmSentence ==
    Expand(<<[tok |-> "the", cnt |-> 1], [tok |-> "algorithm", cnt |-> 1],
             [tok |-> "the", cnt |-> 5], [tok |-> ".", cnt |-> 1]>>)

\* 7 tokens starting with the stopword "These", with the keyword "database"
DatabaseSentence ==
    Expand(<<[tok |-> "These", cnt |-> 1], [tok |-> "database", cnt |-> 1],
             [tok |-> "with", cnt |-> 1], [tok |-> "the", cnt |-> 3],
             [tok |-> ".", cnt |-> 1]>>)

\* 6 tokens with the keyword "index"
ShortSentence ==
    Expand(<<[tok |-> "the", cnt |-> 1], [tok |-> "index", cnt |-> 1],
             [tok |-> "the", cnt |-> 3], [tok |-> ".", cnt |-> 1]>>)

\* 7 tokens without a keyword
PlainSentence ==
    Expand(<<[tok |-> "the", cnt |-> 4], [tok |-> "data", cnt |-> 2],
             [tok |-> ".", cnt |-> 1]>>)

\* 7 tokens starting with "Algorithm"
CapitalSentence ==
    Expand(<<[tok |-> "Algorithm", cnt |-> 1], [tok |-> "the", cnt |-> 5],
             [tok |-> ".", cnt |-> 1]>>)

QuizSentences ==
    {AlgorithmSentence, DatabaseSentence, ShortSentence, PlainSentence,
     CapitalSentence}

\* num_questions of the calls; 5 is the default
NumQuestions == {-1, 0, 1, 2, 3, 5}

IsQuizCall(args) ==
    \E k \in 0..MaxSentences :
        \E ss \in [1..k -> QuizSentences], n \in NumQuestions :
            args = [op |-> "generate_quiz_questions",
                    sentences |-> ss,
                    num_questions |-> n]

InitQuiz ==
    /\ RequestsIdle
    /\ ServiceUnused
    /\ call_pc = "idle"
    /\ IsQuizCall(call_args)
    /\ call_result = <<>>

\* transformation_service.generate_quiz_questions(content, num_questions)
CallGenerateQuiz ==
    /\ call_pc = "idle"
    /\ call_args.op = "generate_quiz_questions"
    /\ call_pc' = "done"
    /\ call_result' = GenerateQuizQuestions(call_args.sentences,
                                            call_args.num_questions, stopwords)
    /\ UNCHANGED <<call_args, requestVars, storeVars, serviceVars>>

SpecQuiz == InitQuiz /\ [][CallGenerateQuiz]_vars

(***************************************************************************)
(* Direct calls of _split_into_paragraphs                                  *)
(***************************************************************************)
\* What separates two word runs of a text given to _split_into_paragraphs:
\* a space or a blank line
ParagraphSeps == {Sp(1), Nl(2)}

\* up to MaxBlocks word runs, separated by spaces or blank lines
IsParagraphsCall(args) ==
    \E k \in 1..MaxBlocks :
        \E bs \in [1..k -> Blocks], ss \in [1..(k - 1) -> ParagraphSeps] :
            args = [op |-> "_split_into_paragraphs",
                    content |-> Interleave(bs, ss)]

InitParagraphs ==
    /\ RequestsIdle
    /\ ServiceUnused
    /\ call_pc = "idle"
    /\ IsParagraphsCall(call_args)
    /\ call_result = <<>>

\* transformation_service._split_into_paragraphs(content)
CallSplitIntoParagraphs ==
    /\ call_pc = "idle"
    /\ call_args.op = "_split_into_paragraphs"
    /\ call_pc' = "done"
    /\ call_result' = SplitIntoParagraphs(call_args.content)
    /\ UNCHANGED <<call_args, requestVars, storeVars, serviceVars>>

SpecParagraphs == InitParagraphs /\ [][CallSplitIntoParagraphs]_vars

(***************************************************************************)
(* Direct calls of _generate_title                                         *)
(***************************************************************************)
\* Sentences given to _generate_title: "Hi."; 7 tokens in 30 characters; 16
\* words in 79 and in 80 characters; 21 tokens in 100 characters; 3 words in
\* 92 characters
TitleSentences ==
    {<<W(1, 2, TRUE)>>, <<W(6, 4, TRUE)>>, <<W(16, 4, FALSE)>>,
     <<W(16, 4, TRUE)>>, <<W(20, 4, TRUE)>>, <<W(3, 30, FALSE)>>}

IsTitleCall(args) ==
    \E k \in 0..MaxSentences :
        \E ss \in [1..k -> TitleSentences] :
            args = [op |-> "_generate_title", sentences |-> ss]

InitTitle ==
    /\ RequestsIdle
    /\ ServiceUnused
    /\ call_pc = "idle"
    /\ IsTitleCall(call_args)
    /\ call_result = <<>>

\* transformation_service._generate_title(sentences)
CallGenerateTitle ==
    /\ call_pc = "idle"
    /\ call_args.op = "_generate_title"
    /\ call_pc' = "done"
    /\ call_result' = GenerateTitle(call_args.sentences)
    /\ UNCHANGED <<call_args, requestVars, storeVars, serviceVars>>

SpecTitle == InitTitle /\ [][CallGenerateTitle]_vars

(***************************************************************************)
(* Threads invoking the methods of the shared instance                     *)
(***************************************************************************)
\* The invocations a thread can make
ServiceCalls ==
    {[op |-> "extract_keywords",
      tokens |-> <<"Algorithm", "database", "algorithm">>, top_n |-> 2],
     [op |-> "extract_keywords",
      tokens |-> <<"data", "with", "data", "database">>, top_n |-> 10],
     [op |-> "generate_quiz_questions",
      sentences |-> <<AlgorithmSentence, DatabaseSentence>>, num_questions |-> 2],
     [op |-> "split_into_micro_lessons",
      content |-> <<W(200, 4, TRUE), Nl(2), W(1000, 4, TRUE)>>,
      duration_minutes |-> 5]}

InitService ==
    /\ RequestsIdle
    /\ CallIdle
    /\ ServiceIdle

Running(t) == threads[t].pc \notin {"idle", "done"}

\* Thread t moves to the position p of its invocation
Goto(t, p) ==
    threads' = [threads EXCEPT
                   ![t].pc = p,
                   ![t].overlapped = @ \/ \E u \in Threads \ {t} : Running(u)]

\* Thread t returns r from its invocation
Return(t, r) ==
    threads' = [threads EXCEPT
                   ![t].pc = "done",
                   ![t].result = r,
                   ![t].overlapped = @ \/ \E u \in Threads \ {t} : Running(u)]

\* The local variables thread t works with
MyLocals(t) == locals[LocalsOf(t)]

SetLocals(t, l) == locals' = [locals EXCEPT ![LocalsOf(t)] = l]

At(t, op, p) == threads[t].pc = p /\ threads[t].op = op

\* Thread t calls a method of transformation_service
Invoke(t) ==
    /\ threads[t].pc = "idle"
    /\ \E c \in ServiceCalls :
           threads' = [threads EXCEPT ![t].pc = "called", ![t].op = c.op,
                                      ![t].args = c]
    /\ UNCHANGED <<locals, stopwords, wpm, requestVars, storeVars, callVars>>

\* extract_keywords: tokenizing and the first filter
KeywordsTokenize(t) ==
    /\ At(t, "extract_keywords", "called")
    /\ SetLocals(t, [NoLocals EXCEPT
                        !.words = AlphaLongWords(LowerTokens(threads[t].args.tokens))])
    /\ Goto(t, "filter")
    /\ UNCHANGED <<stopwords, wpm, requestVars, storeVars, callVars>>

\* extract_keywords: the filter that reads self.stopwords
KeywordsFilter(t) ==
    /\ At(t, "extract_keywords", "filter")
    /\ LET kept == NonStopwords(MyLocals(t).words, stopwords) IN
           /\ SetLocals(t, [MyLocals(t) EXCEPT !.words = kept])
           /\ stopwords' = StopwordsKept(stopwords, kept)
    /\ Goto(t, "count")
    /\ UNCHANGED <<wpm, requestVars, storeVars, callVars>>

\* extract_keywords: counting and the return
KeywordsReturn(t) ==
    /\ At(t, "extract_keywords", "count")
    /\ Return(t, MostCommon(Counter(MyLocals(t).words), threads[t].args.top_n))
    /\ UNCHANGED <<locals, stopwords, wpm, requestVars, storeVars, callVars>>

\* generate_quiz_questions up to its loop
QuizBegin(t) ==
    /\ At(t, "generate_quiz_questions", "called")
    /\ SetLocals(t, [NoLocals EXCEPT
                        !.n = CappedQuestions(threads[t].args.sentences,
                                              threads[t].args.num_questions)])
    /\ Goto(t, "loop")
    /\ UNCHANGED <<stopwords, wpm, requestVars, storeVars, callVars>>

\* generate_quiz_questions: one iteration of its loop
QuizStep(t) ==
    /\ At(t, "generate_quiz_questions", "loop")
    /\ MyLocals(t).i < MyLocals(t).n
    /\ SetLocals(t, [MyLocals(t) EXCEPT
                        !.quiz = QuizIteration(@, threads[t].args.sentences,
                                               MyLocals(t).i, stopwords),
                        !.i = @ + 1])
    /\ Goto(t, "loop")
    /\ UNCHANGED <<stopwords, wpm, requestVars, storeVars, callVars>>

\* generate_quiz_questions: the return after its loop
QuizReturn(t) ==
    /\ At(t, "generate_quiz_questions", "loop")
    /\ MyLocals(t).i >= MyLocals(t).n
    /\ Return(t, MyLocals(t).quiz.questions)
    /\ UNCHANGED <<locals, stopwords, wpm, requestVars, storeVars, callVars>>

\* split_into_micro_lessons up to its loop; target_words reads
\* self.words_per_minute
SegmentBegin(t) ==
    /\ At(t, "split_into_micro_lessons", "called")
    /\ SetLocals(t, [NoLocals EXCEPT
                        !.target_words = threads[t].args.duration_minutes * wpm,
                        !.rest = SplitIntoParagraphs(
                                     CleanContent(threads[t].args.content))])
    /\ Goto(t, "loop")
    /\ UNCHANGED <<stopwords, wpm, requestVars, storeVars, callVars>>

\* split_into_micro_lessons: one iteration of its loop
SegmentStep(t) ==
    /\ At(t, "split_into_micro_lessons", "loop")
    /\ MyLocals(t).rest # <<>>
    /\ SetLocals(t, [MyLocals(t) EXCEPT
                        !.seg = GroupParagraphs(@, <<Head(MyLocals(t).rest)>>,
                                                MyLocals(t).target_words),
                        !.rest = Tail(@)])
    /\ Goto(t, "loop")
    /\ UNCHANGED <<stopwords, wpm, requestVars, storeVars, callVars>>

\* split_into_micro_lessons: the last lesson and the return
SegmentReturn(t) ==
    /\ At(t, "split_into_micro_lessons", "loop")
    /\ MyLocals(t).rest = <<>>
    /\ Return(t, ServiceFlush(MyLocals(t).seg))
    /\ UNCHANGED <<locals, stopwords, wpm, requestVars, storeVars, callVars>>

NextService ==
    \E t \in Threads :
        \/ Invoke(t)
        \/ KeywordsTokenize(t)
        \/ KeywordsFilter(t)
        \/ KeywordsReturn(t)
        \/ QuizBegin(t)
        \/ QuizStep(t)
        \/ QuizReturn(t)
        \/ SegmentBegin(t)
        \/ SegmentStep(t)
        \/ SegmentReturn(t)

SpecService == InitService /\ [][NextService]_vars

(***************************************************************************)
(* app.py: the storage globals db, client and memory_storage; the thread   *)
(* that startup_event starts to run connect_to_mongodb; and the threads of *)
(* the pool that serve POST /course and POST /lessons meanwhile (both are  *)
(* plain "def" handlers).  A dict created for memory_storage is an entry   *)
(* of dicts, and a reference to it is its index; 0 is None.  An id is      *)
(* <<"str", n>> for str(n) and <<"oid", n>> for the n-th ObjectId.         *)
(***************************************************************************)
MaxRequests == 2
Requests == 1..MaxRequests

max_retries == 3

NoDict == 0
NoId == <<"none", 0>>

\* The dict of lines 92-99 and 207-214
NewDict == [courses |-> {}, lessons |-> {}, id_counter |-> 1]

\* Faulty variant: the fallback keeps the dict of the requests served so far
FallbackKeepsDict(ds, ms) == IF ms = NoDict THEN Append(ds, NewDict) ELSE ds

\* dicts after "memory_storage = {...}" of connect_to_mongodb (lines 92-99):
\* always a new dict
FallbackDicts(ds, ms) == Append(ds, NewDict)

\* is_mongodb_connected
IsMongodbConnected == db # "None" /\ client # "None" /\ mongo_up

\* dicts and memory_storage after get_memory_storage, which returns the
\* latter
DictsAfterGet == IF memory_storage = NoDict THEN Append(dicts, NewDict) ELSE dicts
GetMemoryStorage == IF memory_storage = NoDict THEN Len(dicts) + 1 ELSE memory_storage

\* d[key] = value for a collection d of a dict
SetItem(d, key, value) == {x \in d : x.id # key} \cup {value}

Has(d, key) == \E x \in d : x.id = key

\* The status of GET /course/{course_id}
GetCourse(course_id) ==
    IF IsMongodbConnected
    THEN IF course_id[1] = "oid" /\ Has(mongo.courses, course_id)
         THEN "200" ELSE "404"
    ELSE IF memory_storage # NoDict /\ Has(dicts[memory_storage].courses, course_id)
         THEN "200" ELSE "404"

\* The status of GET /lessons/{lesson_id}
GetLesson(lesson_id) ==
    IF IsMongodbConnected
    THEN IF lesson_id[1] = "oid" /\ Has(mongo.lessons, lesson_id)
         THEN "200" ELSE "404"
    ELSE IF memory_storage # NoDict /\ Has(dicts[memory_storage].lessons, lesson_id)
         THEN "200" ELSE "404"

IdleWorker ==
    [pc |-> "idle", op |-> "none", course_id |-> NoId, storage_obj |-> NoDict,
     storage |-> NoDict, counter |-> 0, id |-> NoId, status |-> "none",
     mode |-> "none"]

\* The state when startup_event has started the connection thread
InitStorage ==
    /\ RequestIdle
    /\ content = <<>>
    /\ NothingUploaded
    /\ CallIdle
    /\ ServiceUnused
    /\ mongo_up = FALSE
    /\ db = "None"
    /\ client = "None"
    /\ memory_storage = NoDict
    /\ dicts = <<>>
    /\ mongo = [courses |-> {}, lessons |-> {}, next_oid |-> 1]
    /\ connect = [pc |-> "loop", attempt |-> 0, result |-> "none"]
    /\ workers = [w \in Requests |-> IdleWorker]

StorageOnly == UNCHANGED <<requestVars, uploadVars, callVars, serviceVars>>

\* The MongoDB server starts answering
MongoStarts ==
    /\ mongo_up = FALSE
    /\ mongo_up' = TRUE
    /\ UNCHANGED <<db, client, memory_storage, dicts, mongo, connect, workers>>
    /\ StorageOnly

\* The except clause of the loop (lines 79-83)
AttemptFailed == connect' = [connect EXCEPT !.pc = "loop", !.attempt = @ + 1]

\* An iteration of the loop begins: client = MongoClient(...) (line 53)
ConnectClient ==
    /\ connect.pc = "loop"
    /\ connect.attempt < max_retries
    /\ client' = "client"
    /\ connect' = [connect EXCEPT !.pc = "ping"]
    /\ UNCHANGED <<mongo_up, db, memory_storage, dicts, mongo, workers>>
    /\ StorageOnly

\* client.admin.command('ping') (line 60)
ConnectPing ==
    /\ connect.pc = "ping"
    /\ IF mongo_up THEN connect' = [connect EXCEPT !.pc = "db"] ELSE AttemptFailed
    /\ UNCHANGED <<mongo_up, db, client, memory_storage, dicts, mongo, workers>>
    /\ StorageOnly

\* db = client[MONGODB_DB] (line 64)
ConnectDb ==
    /\ connect.pc = "db"
    /\ db' = "db"
    /\ connect' = [connect EXCEPT !.pc = "collections"]
    /\ UNCHANGED <<mongo_up, client, memory_storage, dicts, mongo, workers>>
    /\ StorageOnly

\* The collections are listed and created (lines 67-73); the server may
\* refuse, as it does to a client that is not authorized
ConnectCollections ==
    /\ connect.pc = "collections"
    /\ \E authorized \in BOOLEAN :
           IF authorized THEN connect' = [connect EXCEPT !.pc = "mode"]
           ELSE AttemptFailed
    /\ UNCHANGED <<mongo_up, db, client, memory_storage, dicts, mongo, workers>>
    /\ StorageOnly

\* memory_storage = None; return True (lines 76-77)
ConnectReturnTrue ==
    /\ connect.pc = "mode"
    /\ memory_storage' = NoDict
    /\ connect' = [connect EXCEPT !.pc = "returned", !.result = "True"]
    /\ UNCHANGED <<mongo_up, db, client, dicts, mongo, workers>>
    /\ StorageOnly

\* The loop ends after max_retries failed attempts; db = None; client = None
\* (lines 90-91)
ConnectGiveUp ==
    /\ connect.pc = "loop"
    /\ connect.attempt >= max_retries
    /\ db' = "None"
    /\ client' = "None"
    /\ connect' = [connect EXCEPT !.pc = "fallback"]
    /\ UNCHANGED <<mongo_up, memory_storage, dicts, mongo, workers>>
    /\ StorageOnly

\* memory_storage = {...}; return False (lines 92-101)
ConnectReturnFalse ==
    /\ connect.pc = "fallback"
    /\ dicts' = FallbackDicts(dicts, memory_storage)
    /\ memory_storage' = Len(dicts')
    /\ connect' = [connect EXCEPT !.pc = "returned", !.result = "False"]
    /\ UNCHANGED <<mongo_up, db, client, mongo, workers>>
    /\ StorageOnly

ConnectToMongodb ==
    \/ ConnectClient
    \/ ConnectPing
    \/ ConnectDb
    \/ ConnectCollections
    \/ ConnectReturnTrue
    \/ ConnectGiveUp
    \/ ConnectReturnFalse

\* The ids of the courses the responses served so far have announced
CreatedCourses ==
    {workers[v].id : v \in {u \in Requests : /\ workers[u].pc = "done"
                                             /\ workers[u].op = "create_course"
                                             /\ workers[u].status = "ok"}}

\* What a request asks for
RequestsOf ==
    {[op |-> "create_course", course_id |-> NoId]}
    \cup {[op |-> "create_lesson", course_id |-> c] : c \in CreatedCourses}

Work(w, next) == workers' = [workers EXCEPT ![w] = next]

\* Thread w takes a request and evaluates "if is_mongodb_connected()"
\* (lines 916, 1064); the pool hands requests to its threads in their order
Serve(w) ==
    /\ workers[w].pc = "idle"
    /\ \A v \in 1..(w - 1) : workers[v].pc # "idle"
    /\ \E r \in RequestsOf :
           Work(w, [workers[w] EXCEPT
                        !.op = r.op, !.course_id = r.course_id,
                        !.pc = IF IsMongodbConnected THEN "mongodb" ELSE "memory"])
    /\ UNCHANGED <<mongo_up, db, client, memory_storage, dicts, mongo, connect>>
    /\ StorageOnly

\* create_course in MongoDB mode: db.courses.insert_one and the response
\* (lines 918-922, 937-942)
CourseInsert(w) ==
    /\ workers[w].pc = "mongodb"
    /\ workers[w].op = "create_course"
    /\ LET oid == <<"oid", mongo.next_oid>> IN
           /\ mongo' = [mongo EXCEPT
                            !.courses = @ \cup {[id |-> oid, lesson_count |-> 0]},
                            !.next_oid = @ + 1]
           /\ Work(w, [workers[w] EXCEPT !.pc = "done", !.id = oid,
                                         !.status = "ok", !.mode = "mongodb"])
    /\ UNCHANGED <<mongo_up, db, client, memory_storage, dicts, connect>>
    /\ StorageOnly

\* create_lesson in MongoDB mode: ObjectId(lesson.course_id) and
\* db.courses.find_one (lines 1067-1072); whatever is raised there leaves
\* as 503 (lines 1085-1087)
LessonFindCourse(w) ==
    /\ workers[w].pc = "mongodb"
    /\ workers[w].op = "create_lesson"
    /\ IF workers[w].course_id[1] = "oid" /\ Has(mongo.courses, workers[w].course_id)
       THEN Work(w, [workers[w] EXCEPT !.pc = "insert"])
       ELSE Work(w, [workers[w] EXCEPT !.pc = "done", !.status = "503"])
    /\ UNCHANGED <<mongo_up, db, client, memory_storage, dicts, mongo, connect>>
    /\ StorageOnly

\* create_lesson in MongoDB mode: db.lessons.insert_one (lines 1075-1076)
LessonInsert(w) ==
    /\ workers[w].pc = "insert"
    /\ LET oid == <<"oid", mongo.next_oid>> IN
           /\ mongo' = [mongo EXCEPT
                            !.lessons = @ \cup {[id |-> oid,
                                                 course_id |-> workers[w].course_id]},
                            !.next_oid = @ + 1]
           /\ Work(w, [workers[w] EXCEPT !.pc = "inc", !.id = oid])
    /\ UNCHANGED <<mongo_up, db, client, memory_storage, dicts, connect>>
    /\ StorageOnly

\* {"$inc": {"lesson_count": 1}} on a collection of courses
IncLessonCount(cs, course_id) ==
    {IF c.id = course_id THEN [c EXCEPT !.lesson_count = @ + 1] ELSE c : c \in cs}

\* create_lesson in MongoDB mode: db.courses.update_one and the response
\* (lines 1079-1084, 1098-1104)
LessonCount(w) ==
    /\ workers[w].pc = "inc"
    /\ mongo' = [mongo EXCEPT !.courses = IncLessonCount(@, workers[w].course_id)]
    /\ Work(w, [workers[w] EXCEPT !.pc = "done", !.status = "ok",
                                  !.mode = "mongodb"])
    /\ UNCHANGED <<mongo_up, db, client, memory_storage, dicts, connect>>
    /\ StorageOnly

\* Memory mode: storage_obj = get_memory_storage() (lines 928, 1087)
MemoryStorageObj(w) ==
    /\ workers[w].pc = "memory"
    /\ dicts' = DictsAfterGet
    /\ memory_storage' = GetMemoryStorage
    /\ Work(w, [workers[w] EXCEPT !.pc = "generate", !.storage_obj = GetMemoryStorage])
    /\ UNCHANGED <<mongo_up, db, client, mongo, connect>>
    /\ StorageOnly

\* generate_memory_id: storage = get_memory_storage(), and the read of
\* storage["_id_counter"] that "+=" begins with (lines 220-221)
IdCounterRead(w) ==
    /\ workers[w].pc = "generate"
    /\ dicts' = DictsAfterGet
    /\ memory_storage' = GetMemoryStorage
    /\ Work(w, [workers[w] EXCEPT
                    !.pc = "add", !.storage = GetMemoryStorage,
                    !.counter = DictsAfterGet[GetMemoryStorage].id_counter])
    /\ UNCHANGED <<mongo_up, db, client, mongo, connect>>
    /\ StorageOnly

\* generate_memory_id: the write of storage["_id_counter"] that "+=" ends
\* with (line 221)
IdCounterWrite(w) ==
    /\ workers[w].pc = "add"
    /\ dicts' = [dicts EXCEPT ![workers[w].storage].id_counter = workers[w].counter + 1]
    /\ Work(w, [workers[w] EXCEPT !.pc = "return"])
    /\ UNCHANGED <<mongo_up, db, client, memory_storage, mongo, connect>>
    /\ StorageOnly

\* What the memory branch of the handler stores under the new id: a course
\* with lesson_count 0 (lines 914, 930-931) or a lesson (lines 1089-1090)
StoredUnder(d, op, id, course_id) ==
    IF op = "create_course"
    THEN [d EXCEPT !.courses = SetItem(@, id, [id |-> id, lesson_count |-> 0])]
    ELSE [d EXCEPT !.lessons = SetItem(@, id, [id |-> id, course_id |-> course_id])]

\* generate_memory_id returns str(storage["_id_counter"]) (line 222); the
\* handler stores the record in storage_obj under this id and responds
\* (lines 929-932, 937-942; 1088-1091, 1098-1104)
MemoryStore(w) ==
    /\ workers[w].pc = "return"
    /\ LET id == <<"str", dicts[workers[w].storage].id_counter>> IN
           /\ dicts' = [dicts EXCEPT
                            ![workers[w].storage_obj] =
                                StoredUnder(@, workers[w].op, id, workers[w].course_id)]
           /\ Work(w, [workers[w] EXCEPT !.pc = "done", !.id = id,
                                         !.status = "ok", !.mode = "memory"])
    /\ UNCHANGED <<mongo_up, db, client, memory_storage, mongo, connect>>
    /\ StorageOnly

NextStorage ==
    \/ MongoStarts
    \/ ConnectToMongodb
    \/ \E w \in Requests :
           \/ Serve(w)
           \/ CourseInsert(w)
           \/ LessonFindCourse(w)
           \/ LessonInsert(w)
           \/ LessonCount(w)
           \/ MemoryStorageObj(w)
           \/ IdCounterRead(w)
           \/ IdCounterWrite(w)
           \/ MemoryStore(w)

SpecStorage == InitStorage /\ [][NextStorage]_vars

\* The connection thread is scheduled as long as it has a step to take
SpecStorageFair == SpecStorage /\ WF_vars(ConnectToMongodb)

(***************************************************************************)
(* app.py: POST /quiz/{quiz_id}/submit in its two storage modes.  An       *)
(* answer is a token, written with or without spaces around it.            *)
(***************************************************************************)
MaxQuestions == 2

passing_score == 70

\* user_answer.strip().lower()
StripLower(answer) == Lower(answer.text)

\* zip(questions, answers): the pairs up to the end of the shorter list
Zip(questions, answers) ==
    [i \in 1..Min(Len(questions), Len(answers)) |->
        [question |-> questions[i], user_answer |-> answers[i]]]

IsCorrect(pair) ==
    StripLower(pair.user_answer) = StripLower(pair.question.correct_answer)

\* calculate_quiz_score
CalculateQuizScore(quiz, answers) ==
    LET pairs == Zip(quiz.questions, answers)
        correct == {i \in 1..Len(pairs) : IsCorrect(pairs[i])}
        total_points == SumSeq([i \in 1..Len(quiz.questions) |->
                                   quiz.questions[i].points])
        earned_points == SumSeq([i \in 1..Len(pairs) |->
                                    IF i \in correct THEN pairs[i].question.points
                                    ELSE 0])
    IN  [status |-> "ok",
         score |-> earned_points,
         passed |-> IF total_points > 0
                    THEN earned_points * 100 >= quiz.passing_score * total_points
                    ELSE 0 >= quiz.passing_score,
         total_questions |-> Len(quiz.questions),
         correct_answers |-> Cardinality(correct),
         total_points |-> total_points,
         earned_points |-> earned_points]

SubmissionRejected(code) ==
    [status |-> code, score |-> 0, passed |-> FALSE, total_questions |-> 0,
     correct_answers |-> 0, total_points |-> 0, earned_points |-> 0]

\* submit_quiz_answers in MongoDB mode, the quiz being found
SubmitMongodbMode(quiz, answers) ==
    IF Len(answers) # Len(quiz.questions) THEN SubmissionRejected("400")
    ELSE CalculateQuizScore(quiz, answers)

\* submit_quiz_answers in memory mode, the quiz being found
SubmitMemoryMode(quiz, answers) == CalculateQuizScore(quiz, answers)

QuizAnswers ==
    {[text |-> "Algorithm", padded |-> FALSE],
     [text |-> "algorithm", padded |-> TRUE],
     [text |-> "database", padded |-> FALSE]}

StoredQuestions ==
    {[correct_answer |-> [text |-> "algorithm", padded |-> FALSE], points |-> 1],
     [correct_answer |-> [text |-> "database", padded |-> FALSE], points |-> 2]}

IsSubmitCall(args) ==
    \E n \in 0..MaxQuestions, m \in 0..(MaxQuestions + 1) :
        \E qs \in [1..n -> StoredQuestions], as \in [1..m -> QuizAnswers] :
            args = [op |-> "submit_quiz_answers",
                    quiz |-> [questions |-> qs, passing_score |-> passing_score],
                    answers |-> as]

NotSubmitted == SubmissionRejected("none")

InitSubmit ==
    /\ RequestsIdle
    /\ ServiceUnused
    /\ call_pc = "idle"
    /\ IsSubmitCall(call_args)
    /\ call_result = [mongodb |-> NotSubmitted, memory |-> NotSubmitted]

\* The submission is made to a service in the given mode
Submitted(mode, outcome) ==
    /\ call_result[mode] = NotSubmitted
    /\ call_result' = [call_result EXCEPT ![mode] = outcome]
    /\ call_pc' = IF \A m \in {"mongodb", "memory"} \ {mode} :
                         call_result[m] # NotSubmitted
                  THEN "done" ELSE "idle"
    /\ UNCHANGED <<call_args, requestVars, storeVars, serviceVars>>

SubmitInMongodbMode ==
    Submitted("mongodb", SubmitMongodbMode(call_args.quiz, call_args.answers))

SubmitInMemoryMode ==
    Submitted("memory", SubmitMemoryMode(call_args.quiz, call_args.answers))

NextSubmit == SubmitInMongodbMode \/ SubmitInMemoryMode

SpecSubmit == InitSubmit /\ [][NextSubmit]_vars

(***************************************************************************)
(* Properties                                                              *)
(***************************************************************************)
Accepted == pc = "done" /\ status = "ok"

OnApp == entry \in {"transform", "upload"}
OnRouter == entry = "router"

\* The text the entry point segments: the submitted text after its normalizer
Normalized ==
    IF OnRouter THEN CleanContent(content) ELSE CleanTextForProcessing(content)

\* The word count the entry point's segmentation works with
NormalizedWords ==
    IF OnRouter THEN TokenCount(Normalized) ELSE WordCount(Normalized)

\* target_words of the request
Budget == target * 200

\* Sum of the first j entries of a sequence of numbers
PrefixSum(s, j) == SumSeq(SubSeq(s, 1, j))

\* Words of each text of a sequence
WordsOf(texts) == [i \in 1..Len(texts) |-> WordCount(texts[i])]

LessonContents == [i \in 1..Len(lessons) |-> lessons[i].content]

\* Paragraph j of paras lies, as a range of words of the document, inside
\* lesson i
ParagraphInLesson(paras, j, i) ==
    /\ PrefixSum(WordsOf(LessonContents), i - 1) <= PrefixSum(WordsOf(paras), j - 1)
    /\ PrefixSum(WordsOf(paras), j) <= PrefixSum(WordsOf(LessonContents), i)

InExactlyOneLesson(paras, j) ==
    Cardinality({i \in 1..Len(lessons) : ParagraphInLesson(paras, j, i)}) = 1

\* C1: the lesson at position i of the returned list has order i, so the
\* orders increase strictly from 1.
C1_OrderIsPosition ==
    Accepted => \A i \in 1..Len(lessons) : lessons[i].order = i

C1_Witness ==
    /\ Accepted /\ Len(lessons) >= 3
    /\ lessons[1].order = 1 /\ lessons[3].order = 3

\* C2: for every accepted input the word counts of the returned lessons add
\* up to the word count of the normalized input, and total_words reports
\* that sum.
C2_WordsAccounted ==
    Accepted =>
        /\ SumWordCount(lessons) = NormalizedWords
        /\ OnApp => total_words = NormalizedWords

C4_LongParagraphWhole ==
    Accepted /\ OnRouter =>
        LET paras == SplitIntoParagraphs(CleanContent(content)) IN
        \A j \in 1..Len(paras) :
            TokenCount(paras[j]) > Budget =>
                /\ InExactlyOneLesson(paras, j)
                /\ \E i \in 1..Len(lessons) :
                       \E q \in 1..Len(RawParagraphs(lessons[i].content)) :
                           RawParagraphs(lessons[i].content)[q] = paras[j]

C4_Witness ==
    /\ Accepted /\ OnRouter
    /\ Len(lessons) = 1
    /\ lessons[1].word_count > Budget
    /\ TokenCount(lessons[1].content) = lessons[1].word_count

NoBlankLine(text) == \A i \in 1..Len(text) : ~(text[i].k = "nl" /\ text[i].n >= 2)

\* C5 as stated: a document without blank lines whose word count exceeds
\* the budget is cut into more than one lesson, and 1200 words at
\* target_minutes = 5 give exactly 2 lessons.
C5_Original ==
    (/\ Accepted /\ target >= 1 /\ NoBlankLine(content)
     /\ WordCount(Normalized) > Budget) =>
        /\ Len(lessons) > 1
        /\ NormalizedWords = 1200 /\ target = 5 => Len(lessons) = 2

\* C5 as amended: on the sentence path a document whose word count exceeds
\* the budget and none of whose sentences exceeds it is cut into more than
\* one lesson, each within the budget, and a 1000-word sentence followed by
\* a 200-word sentence at target_minutes = 5 gives exactly 2 lessons of 1000
\* and 200 words with orders 1 and 2; on the paragraph path a document
\* without blank lines comes back as one lesson.
C5_Amended ==
    /\ Accepted /\ OnApp /\ nltk =>
           LET sentences == SentTokenize(Normalized) IN
           /\ (/\ NormalizedWords > Budget
               /\ \A k \in 1..Len(sentences) : WordCount(sentences[k]) <= Budget)
              => /\ Len(lessons) > 1
                 /\ \A i \in 1..Len(lessons) : lessons[i].word_count <= Budget
           /\ (/\ target = 5 /\ Len(sentences) = 2
               /\ WordCount(sentences[1]) = 1000 /\ WordCount(sentences[2]) = 200)
              => /\ Len(lessons) = 2
                 /\ lessons[1].word_count = 1000 /\ lessons[1].order = 1
                 /\ lessons[2].word_count = 200 /\ lessons[2].order = 2
    /\ Accepted /\ OnRouter /\ NoBlankLine(content) => Len(lessons) = 1

C5_Witness ==
    /\ Accepted /\ entry = "transform" /\ nltk /\ target = 5
    /\ NoBlankLine(content) /\ NormalizedWords = 1200
    /\ Len(lessons) = 2 /\ lessons[1].word_count = 1000

\* m is max(1, r) for an integer r nearest to word_count / 200
IsEstimate(m, word_count) ==
    \E r \in 0..(word_count \div 200 + 1) :
        /\ 200 * r - 100 <= word_count /\ word_count <= 200 * r + 100
        /\ m = Max(1, r)

\* C6: every emitted lesson has estimated_minutes = max(1, round(word_count
\* / 200)), on every path and also when word_count exceeds the budget.
C6_EstimateFormula ==
    Accepted =>
        \A i \in 1..Len(lessons) :
            IsEstimate(lessons[i].estimated_minutes, lessons[i].word_count)

\* C7: every returned lesson has estimated_minutes >= 1, whatever the
\* target duration and the path.
C7_AtLeastOneMinute ==
    Accepted => \A i \in 1..Len(lessons) : lessons[i].estimated_minutes >= 1

C7_Witness ==
    /\ Accepted /\ target <= 0 /\ lessons # <<>>
    /\ lessons[Len(lessons)].word_count < 100
    /\ lessons[Len(lessons)].estimated_minutes = 1

\* C8: the normalizer collapses runs of spaces and tabs to one space and 3
\* or more newlines to 2, strips the text, and keeps every blank-line
\* paragraph boundary, so that the output has as many paragraphs as the
\* input.
C8_KeepsParagraphs ==
    Accepted /\ lessons # <<>> =>
        /\ \A i \in 1..Len(Normalized) :
               /\ Normalized[i].k # "tab"
               /\ Normalized[i].k = "sp" => Normalized[i].n = 1
               /\ Normalized[i].k = "nl" => Normalized[i].n <= 2
        /\ Strip(Normalized) = Normalized
        /\ Len(RawParagraphs(Normalized)) = Len(RawParagraphs(content))

\* C9: on the paragraph path, a document whose paragraphs all have fewer
\* than 50 words is merged into a single paragraph and gives exactly 1
\* lesson.
C9_ShortParagraphsOneLesson ==
    (/\ Accepted /\ OnRouter
     /\ \A j \in 1..Len(RawParagraphs(content)) :
            TokenCount(RawParagraphs(content)[j]) < MinParagraphWords)
    => /\ Len(lessons) = 1
       /\ Len(RawParagraphs(lessons[1].content)) = 1
       /\ CleanContent(lessons[1].content) = CleanContent(content)

C9_Witness ==
    /\ Accepted /\ OnRouter /\ target = 5
    /\ Len(RawParagraphs(content)) = 3
    /\ \A j \in 1..3 : TokenCount(RawParagraphs(content)[j]) \in 20..21
    /\ Len(lessons) = 1

\* The minimum length of the entry point: 10 characters for the direct
\* submission to POST /transform, 50 for POST /upload and for the
\* /transform/ router
SpecifiedMinimum == IF entry = "transform" THEN 10 ELSE 50

\* C10: a text whose normalized length is below the entry point's minimum
\* is rejected and gives no lesson; a text at or above it is not rejected
\* for its length.
C10_MinimumLength ==
    pc = "done" =>
        /\ TextLen(Normalized) < SpecifiedMinimum
               => status # "ok" /\ lessons = <<>>
        /\ TextLen(Normalized) >= SpecifiedMinimum /\ nltk => status = "ok"

\* The text is missing or shorter than the least of the minimum lengths,
\* before and after normalization
TextInvalid ==
    /\ TextLen(Strip(content)) < MinDirectChars
    /\ TextLen(Normalized) < MinDirectChars

\* target_duration is outside 1..30
DurationInvalid == target \notin 1..30

\* C11: a request with an invalid input (text missing or below the minimum
\* length, target_duration outside 1..30) is answered with a 4xx rejection,
\* never with a 5xx response or a successful result.
C11_InvalidInputRejected ==
    pc = "done" /\ (TextInvalid \/ DurationInvalid) => status = "400"

\* The extractor returned one of its own messages, or nothing
ExtractionUnusable ==
    \/ extraction \in {"erreur", "aucun_texte", "pypdf_requise"}
    \/ extraction = "text" /\ Strip(content) = <<>>

\* C19: an upload whose text extraction failed, or gave an empty or
\* placeholder result, is rejected with nothing stored and nothing
\* segmented into lessons.
C19_FailedExtractionRejected ==
    pc = "done" /\ entry = "upload" /\ ExtractionUnusable =>
        /\ status = "400"
        /\ lessons = <<>>
        /\ courses = <<>> /\ uploads = 0 /\ stored_lessons = <<>>

\* The units the entry point groups into lessons: sentences on the sentence
\* path of app.py, paragraphs in split_into_micro_lessons
UnitsOf(text) == IF OnRouter THEN RawParagraphs(text) ELSE SentTokenize(text)

\* The number of words the grouping loop counts for a unit
UnitWords(unit) == IF OnRouter THEN TokenCount(unit) ELSE WordCount(unit)

\* C20: with the grouping loop (paragraphs in split_into_micro_lessons,
\* sentences in transform_content_internal), every lesson holds at least one
\* unit, a lesson whose word_count exceeds target_words holds a single unit,
\* and the word_count of a lesson plus the words of the first unit of the
\* next lesson exceeds target_words.
C20_CloseBeforeAdd ==
    Accepted /\ (OnRouter \/ nltk) =>
        /\ \A i \in 1..Len(lessons) :
               /\ Len(UnitsOf(lessons[i].content)) >= 1
               /\ lessons[i].word_count > Budget
                      => Len(UnitsOf(lessons[i].content)) = 1
        /\ \A i \in 1..(Len(lessons) - 1) :
               lessons[i].word_count
                   + UnitWords(UnitsOf(lessons[i + 1].content)[1]) > Budget

C20_Witness ==
    /\ Accepted /\ OnApp /\ nltk /\ target = 1
    /\ Len(lessons) = 2
    /\ Len(UnitsOf(lessons[1].content)) = 2
    /\ lessons[1].word_count = 40
    /\ lessons[2].word_count = 1000

KeywordsReturned == call_pc = "done" /\ call_args.op = "extract_keywords"

\* The words extract_keywords counts: lower case, alphabetic, longer than 3
\* characters, not a stopword
IsKeptWord(w) ==
    /\ Lower(w) = w
    /\ IsAlpha(w)
    /\ Chars(w) > 3
    /\ w \notin NltkStopwords

\* C12: extract_keywords returns at most top_n words, no word twice, each
\* of them lower case, alphabetic, longer than 3 characters and not a
\* stopword.
C12_KeywordsWellFormed ==
    KeywordsReturned =>
        /\ Len(call_result) <= call_args.top_n
        /\ \A i, j \in 1..Len(call_result) :
               call_result[i] = call_result[j] => i = j
        /\ \A i \in 1..Len(call_result) : IsKeptWord(call_result[i])

C12_Witness ==
    /\ KeywordsReturned
    /\ call_args.top_n = 2
    /\ call_result = <<"algorithm", "database">>
    /\ \E i, j, k \in 1..Len(call_args.tokens) :
           /\ call_args.tokens[i] = "Algorithm"
           /\ call_args.tokens[j] = "with"
           /\ call_args.tokens[k] = "database"

\* Occurrences of the word w among the lower-cased tokens of the text
Occurrences(w) ==
    Cardinality({i \in 1..Len(call_args.tokens) : Lower(call_args.tokens[i]) = w})

\* Position of the first occurrence of w in the text
FirstOccurrence(w) ==
    CHOOSE i \in 1..Len(call_args.tokens) :
        /\ Lower(call_args.tokens[i]) = w
        /\ \A j \in 1..(i - 1) : Lower(call_args.tokens[j]) # w

\* The kept words of the text
KeptWords ==
    {Lower(call_args.tokens[i]) : i \in 1..Len(call_args.tokens)}
        \cap {w \in Tokens : IsKeptWord(w)}

\* v comes before w in the order of extract_keywords: more occurrences, or
\* as many and an earlier first occurrence
RanksBefore(v, w) ==
    \/ Occurrences(v) > Occurrences(w)
    \/ Occurrences(v) = Occurrences(w) /\ FirstOccurrence(v) < FirstOccurrence(w)

\* C13: extract_keywords returns the top_n most frequent kept words (all of
\* them when there are fewer), most frequent first, equally frequent words
\* in the order of their first occurrence; "algorithm" 5 times and
\* "database" 3 times give <<"algorithm", "database">> for top_n = 2.
C13_KeywordsRanked ==
    KeywordsReturned =>
        /\ Len(call_result) = Min(call_args.top_n, Cardinality(KeptWords))
        /\ \A i \in 1..Len(call_result) : call_result[i] \in KeptWords
        /\ \A i, j \in 1..Len(call_result) :
               i < j => RanksBefore(call_result[i], call_result[j])
        /\ \A i \in 1..Len(call_result) :
               \A w \in KeptWords :
                   (\A j \in 1..Len(call_result) : call_result[j] # w)
                       => RanksBefore(call_result[i], w)
        /\ (/\ call_args.top_n = 2
            /\ KeptWords = {"algorithm", "database"}
            /\ Occurrences("algorithm") = 5
            /\ Occurrences("database") = 3)
           => call_result = <<"algorithm", "database">>

C13_Witness ==
    /\ KeywordsReturned
    /\ call_args.top_n = 2
    /\ call_args.tokens = Expand(<<[tok |-> "database", cnt |-> 3],
                                   [tok |-> "algorithm", cnt |-> 5]>>)
    /\ call_result = <<"algorithm", "database">>

\* Two equally frequent kept words and a third, less frequent one that is
\* cut off
C13_TieWitness ==
    /\ KeywordsReturned
    /\ call_args.top_n = 2
    /\ call_args.tokens = Expand(<<[tok |-> "data", cnt |-> 1],
                                   [tok |-> "database", cnt |-> 3],
                                   [tok |-> "algorithm", cnt |-> 3]>>)
    /\ call_result = <<"database", "algorithm">>

QuizReturned == call_pc = "done" /\ call_args.op = "generate_quiz_questions"

\* C15: no two questions of a generated quiz are built from the same
\* sentence.
C15_OneQuestionPerSentence ==
    QuizReturned =>
        \A i, j \in 1..Len(call_result) :
            call_result[i].source = call_result[j].source => i = j

\* A document that holds the same sentence twice
C15_Witness ==
    /\ QuizReturned
    /\ call_args.num_questions = 3
    /\ call_args.sentences = <<AlgorithmSentence, AlgorithmSentence, DatabaseSentence>>
    /\ Len(call_result) = 2

\* A sentence from which a question can be built: more than 6 tokens, one
\* of them a keyword
GivesQuestion(s) ==
    Len(s) > 6 /\ \E i \in 1..Len(s) : IsQuestionKeyword(s[i], NltkStopwords)

\* C16: generate_quiz_questions returns at most num_questions questions,
\* and the empty list when no sentence gives a question or num_questions
\* is at most 0.
C16_AtMostRequested ==
    QuizReturned =>
        /\ Len(call_result) <= Max(call_args.num_questions, 0)
        /\ (\/ call_args.num_questions <= 0
            \/ \A i \in 1..Len(call_args.sentences) :
                   ~GivesQuestion(call_args.sentences[i]))
           => call_result = <<>>

C16_Witness ==
    /\ QuizReturned
    /\ call_args.num_questions = 2
    /\ call_args.sentences = <<AlgorithmSentence, DatabaseSentence, CapitalSentence>>
    /\ Len(call_result) = 2

\* C17: every question of a generated quiz has exactly 4 options, its
\* correct_answer is the first of them and its points are 1.
C17_QuestionShape ==
    QuizReturned =>
        \A i \in 1..Len(call_result) :
            /\ Len(call_result[i].options) = 4
            /\ call_result[i].correct_answer = call_result[i].options[1]
            /\ call_result[i].points = 1

C17_Witness ==
    /\ QuizReturned
    /\ Len(call_result) = 3
    /\ call_result[3].main_keyword = "Algorithm"

\* C14: two invocations of extract_keywords with the same text and top_n
\* return the same list, whatever ran before or between them.
C14_KeywordsDeterministic ==
    \A t, u \in Threads :
        (/\ threads[t].pc = "done" /\ threads[u].pc = "done"
         /\ threads[t].op = "extract_keywords"
         /\ threads[t].args = threads[u].args)
        => threads[t].result = threads[u].result

C14_Witness ==
    /\ \A t \in {1, 2} :
           /\ threads[t].pc = "done"
           /\ threads[t].args.op = "extract_keywords"
           /\ threads[t].args.top_n = 2
           /\ threads[t].result = <<"algorithm", "database">>
    /\ threads[1].overlapped
    /\ threads[3].pc = "done"
    /\ threads[3].overlapped
    /\ threads[3].args.op = "extract_keywords"
    /\ threads[3].args.top_n = 10

\* What the invocation c returns when it runs alone on a fresh instance
ResultAlone(c) ==
    CASE c.op = "extract_keywords" ->
             ExtractKeywords(c.tokens, c.top_n, NltkStopwords)
      [] c.op = "generate_quiz_questions" ->
             GenerateQuizQuestions(c.sentences, c.num_questions, NltkStopwords)
      [] c.op = "split_into_micro_lessons" ->
             SplitIntoMicroLessons(c.content, c.duration_minutes)

\* C18: under every interleaving of the threads, each invocation on the
\* shared instance returns what it returns when run alone, and the fields of
\* the instance keep the values __init__ gave them.
C18_NoInterference ==
    /\ stopwords = NltkStopwords
    /\ wpm = words_per_minute
    /\ \A t \in Threads :
           threads[t].pc = "done" => threads[t].result = ResultAlone(threads[t].args)

C18_Witness ==
    /\ \A t \in {1, 2} :
           /\ threads[t].pc = "done"
           /\ threads[t].overlapped
           /\ threads[t].result # <<>>
    /\ threads[1].op = "generate_quiz_questions"
    /\ threads[2].op = "split_into_micro_lessons"
    /\ Running(3)

ParagraphsReturned ==
    call_pc = "done" /\ call_args.op = "_split_into_paragraphs"

\* C21: after the merging of _split_into_paragraphs no paragraph has fewer
\* than 50 words unless the whole document has fewer than 50 words, and the
\* returned paragraphs hold the text of the document, in its order.
C21_NoShortParagraphLeft ==
    ParagraphsReturned =>
        /\ TokenCount(call_args.content) >= MinParagraphWords
               => \A i \in 1..Len(call_result) :
                      TokenCount(call_result[i]) >= MinParagraphWords
        /\ CleanContent(Join(call_result, Sp(1))) = CleanContent(call_args.content)

\* The sentences of ss without the repetitions of an earlier sentence
RECURSIVE Distinct(_)
Distinct(ss) ==
    IF ss = <<>> THEN <<>>
    ELSE LET front == Distinct(SubSeq(ss, 1, Len(ss) - 1))
             last == ss[Len(ss)]
         IN  IF \E i \in 1..Len(front) : front[i] = last THEN front
             ELSE Append(front, last)

\* The sentences the quiz may take, in document order: the distinct
\* sentences of more than 6 tokens, the first num_questions of them
TakenSentences ==
    LET long == Distinct(SelectSeq(call_args.sentences, LAMBDA s : Len(s) > 6))
    IN  SubSeq(long, 1, Min(Max(call_args.num_questions, 0), Len(long)))

\* w is the first token of s that is alphabetic, longer than 4 characters
\* and not a stopword
IsFirstKeyword(w, s) ==
    \E p \in 1..Len(s) :
        /\ s[p] = w
        /\ IsAlpha(w) /\ Chars(w) > 4 /\ Lower(w) \notin NltkStopwords
        /\ \A r \in 1..(p - 1) :
               ~(IsAlpha(s[r]) /\ Chars(s[r]) > 4 /\ Lower(s[r]) \notin NltkStopwords)

\* C22: the questions of a quiz come, in document order, from the first
\* num_questions distinct sentences of more than 6 tokens, one question for
\* each of these sentences that has a keyword (its first alphabetic,
\* non-stopword token longer than 4 characters), none for the others.
C22_SentenceSelection ==
    QuizReturned =>
        /\ [i \in 1..Len(call_result) |-> call_result[i].source]
               = SelectSeq(TakenSentences, GivesQuestion)
        /\ \A i \in 1..Len(call_result) :
               /\ Len(call_result[i].source) > 6
               /\ IsFirstKeyword(call_result[i].main_keyword, call_result[i].source)

\* A 6-token sentence that is passed over, a sentence without keyword that
\* is taken and gives no question, and a sentence that gives one
C22_Witness ==
    /\ QuizReturned
    /\ call_args.num_questions = 2
    /\ call_args.sentences = <<ShortSentence, PlainSentence, DatabaseSentence>>
    /\ Len(call_result) = 1
    /\ call_result[1].main_keyword = "database"

TitleReturned == call_pc = "done" /\ call_args.op = "_generate_title"

\* The sentence the title is derived from: the first one with more than 5
\* tokens, or the first one when there is none
TitleSentence ==
    LET long == SelectSeq(call_args.sentences, LAMBDA x : TokenCount(x) > 5) IN
    IF long # <<>> THEN long[1] ELSE call_args.sentences[1]

\* C23: the derived title has at most 80 characters: the title sentence
\* itself when it has at most 80 characters, else its first 77 characters
\* followed by "...".
C23_TitleAtMost80 ==
    TitleReturned =>
        /\ TitleLen(call_result) <= 80
        /\ call_args.sentences # <<>> =>
               IF TextLen(TitleSentence) <= 80
               THEN call_result = Title(TitleSentence, FALSE)
               ELSE call_result = Title(TakeChars(TitleSentence, 77), TRUE)

\* C24: a lesson carries the is_summary flag exactly when the result is one
\* lesson and the document has fewer than 500 words; the flagged lesson has
\* order 1 and the word count of its content.
C24_SummaryFlag ==
    Accepted =>
        /\ (\E i \in 1..Len(lessons) : lessons[i].is_summary)
               <=> (Len(lessons) = 1 /\ WordCount(Normalized) < SummaryMaxWords)
        /\ \A i \in 1..Len(lessons) :
               lessons[i].is_summary =>
                   /\ lessons[i].order = 1
                   /\ lessons[i].word_count = WordCount(lessons[i].content)

\* C25: an upload that ends in an error leaves no course and no upload
\* record in storage, and a stored course has all lessons of its response
\* stored.
C25_UploadAllOrNothing ==
    pc = "done" /\ entry = "upload" =>
        /\ status # "ok" => courses = <<>> /\ uploads = 0
        /\ \A c \in 1..Len(courses) :
               /\ status = "ok"
               /\ courses[c].lesson_count = Len(lessons)
               /\ stored_lessons = lessons

\* Thread w has answered a creation request with success
Created(w) == workers[w].pc = "done" /\ workers[w].status = "ok"

\* The status of the GET request for what thread w created
Retrieve(w) ==
    IF workers[w].op = "create_course" THEN GetCourse(workers[w].id)
    ELSE GetLesson(workers[w].id)

\* C26: a course or lesson whose creation request returned success is
\* retrievable by its id in every later state, whatever the connection
\* thread has done since.
C26_CreatedStaysRetrievable ==
    \A w \in Requests : Created(w) => Retrieve(w) = "200"

\* C27: in memory mode no two requests are given the same identifier.
C27_MemoryIdsDistinct ==
    \A v, w \in Requests :
        /\ v # w
        /\ Created(v) /\ workers[v].mode = "memory"
        /\ Created(w) /\ workers[w].mode = "memory"
        => workers[v].id # workers[w].id

\* The lessons of a collection that belong to the course
LessonsOfCourse(ls, course_id) == {l \in ls : l.course_id = course_id}

CountsMatch(cs, ls) ==
    \A c \in cs : c.lesson_count = Cardinality(LessonsOfCourse(ls, c.id))

\* No creation of a lesson is under way
NoLessonUnderWay ==
    \A w \in Requests : workers[w].op = "create_lesson" => workers[w].pc = "done"

\* C28: when no lesson creation is under way, each course's lesson_count is
\* the number of stored lessons of that course, in the database and in the
\* memory store.
C28_LessonCountMatches ==
    NoLessonUnderWay =>
        /\ CountsMatch(mongo.courses, mongo.lessons)
        /\ memory_storage # NoDict =>
               CountsMatch(dicts[memory_storage].courses,
                           dicts[memory_storage].lessons)

\* The connection attempts connect_to_mongodb has begun
AttemptsBegun ==
    IF connect.pc \in {"ping", "db", "collections", "mode"} \/ connect.result = "True"
    THEN connect.attempt + 1
    ELSE connect.attempt

\* connect_to_mongodb returns in this step
ConnectReturns == connect.pc # "returned" /\ connect'.pc = "returned"

\* The storage mode on return: MongoDB mode after True, memory mode with a
\* new empty dict after False
ModeOnReturn ==
    \/ /\ connect'.result = "True"
       /\ db' # "None" /\ client' # "None"
       /\ memory_storage' = NoDict
    \/ /\ connect'.result = "False"
       /\ db' = "None" /\ client' = "None"
       /\ memory_storage' # NoDict
       /\ dicts'[memory_storage'] = NewDict

\* C30: connect_to_mongodb returns, it has begun at most 3 connection
\* attempts by then, and when it returns exactly one storage mode is set:
\* True with db and client set and memory_storage None, or False with db and
\* client None and memory_storage a new empty store.
C30_ConnectTerminates ==
    /\ <>(connect.pc = "returned")
    /\ [](AttemptsBegun <= max_retries)
    /\ [][ConnectReturns => ModeOnReturn]_vars

\* connect_to_mongodb has returned False after three failed attempts, and a
\* request had been served from a memory dict before
C30_Witness ==
    /\ connect.pc = "returned"
    /\ connect.result = "False"
    /\ connect.attempt = max_retries
    /\ \E w \in Requests : Created(w) /\ workers[w].mode = "memory"
                           /\ workers[w].storage_obj # memory_storage

\* C29: the same stored quiz and the same answers give the same outcome in
\* MongoDB mode and in memory mode: the same rejection, or the same score,
\* earned_points, correct_answers and passed flag.
C29_SameOutcomeInBothModes ==
    call_pc = "done" => call_result["mongodb"] = call_result["memory"]
====
